---- MODULE Spec2Model ----
(***************************************************************************)
(* A model of the clacheless distributed cache: the per-origin NodeView,   *)
(* the LocalCache (last-writer-wins store with expiry) and the             *)
(* DistributedCache orchestrator (local PUT, put-entry broadcast, state    *)
(* view gossip and state transfer) of two replicas.                        *)
(*                                                                         *)
(* Groups of variables, one per component under study:                     *)
(*   nv*     one NodeView driven by arbitrary update calls (SpecNodeView)  *)
(*   lc*     one LocalCache driven by arbitrary put/get/purge (SpecCache)  *)
(*   cv*     one ClusterStateView of a three-node cluster (SpecView)       *)
(*   it*     one LocalCache with a state-transfer iterator (SpecIter)      *)
(*   pa*     the PeerAuthenticator tokens of peer RPCs (SpecToken,         *)
(*           SpecAuth, on top of the cluster's clocks and replicas)        *)
(*   ut*     the calls of util and config at start-up (SpecUtil)           *)
(*   gs*     the liveness maps of three replicas and the peers their       *)
(*           gossip and broadcasts go to (SpecGossip)                      *)
(*   the rest: the cluster of replicas (Spec, SpecHeal)                    *)
(* Every specification fixes the variables of the other groups.            *)
(***************************************************************************)
EXTENDS Integers, Sequences, FiniteSets, TLC

VARIABLES nv, nvSupplied, nvLast,
          lc, lcNow, lcHist, lcLast,
          lcPass,           \* the pass of purge_expired in progress
          clock,            \* per replica: the last reading of its wall clock
          local_cache,      \* per replica: LocalCache.cache
          local_sequence,   \* per replica: LocalSequence.seq
          other_nodes_update_seqs, \* per replica: node_id -> NodeView
          known_nodes,      \* per replica: the ordinals seen within the alive window
          net,              \* put-entry RPCs of broadcasts, in flight
          transfers,        \* running state-transfer tasks
          connected,        \* whether the replicas can reach each other
          putLog,           \* history: the local PUTs accepted so far
          received,         \* history: per replica, the put-entries handled
          last,             \* history: the operation that just completed
          item_ttl_micros,  \* DistributedCache.cache_item_ttl_micros
          cvSeq,            \* LocalSequence.seq
          cvOthers,         \* ClusterStateView.other_nodes_update_seqs
          cvIssued,         \* history: what generate_next returned, in order
          cvMap,            \* the as_map call in progress, or its result
          cvLast,           \* history: the call that just completed
          itCache,          \* LocalCache.cache
          itNow,            \* the last reading of the wall clock
          it,               \* the iterator LocalCache::iter returned
          itYielded,        \* history: what the iterator has yielded
          paMinted,         \* history: the tokens create_token returned
          paLast,           \* history: the token check that just completed
          utLast,           \* history: the util or config call that just completed
          gsNow,            \* the last reading of the wall clock
          gsSeen,           \* per replica: known_node_ordinals_with_last_seen
          gsPushes,         \* state-view pushes in flight
          gsHeard,          \* history: the replicas a push has reached
          gsLast            \* history: the peers the last round of sends went to

nvVars == <<nv, nvSupplied, nvLast>>
lcVars == <<lc, lcNow, lcHist, lcLast, lcPass>>
dcVars == <<clock, local_cache, local_sequence, other_nodes_update_seqs,
            known_nodes, net, transfers, connected, putLog, received, last,
            item_ttl_micros>>
cvVars == <<cvSeq, cvOthers, cvIssued, cvMap, cvLast>>
itVars == <<itCache, itNow, it, itYielded>>
paVars == <<paMinted, paLast>>
utVars == <<utLast>>
gsVars == <<gsNow, gsSeen, gsPushes, gsHeard, gsLast>>
vars == <<nvVars, utVars, gsVars, lcVars, dcVars, cvVars, itVars, paVars>>

\* ------------------------------------------------------------------ bounds

\* MAX_AGE_BEFORE_IGNORED_MICROS, in ticks of the model's clock.
MAX_AGE_BEFORE_IGNORED_MICROS == 2

\* How far the clock of the liveness maps moves on.
MaxGossipTicks == 3

\* State-view pushes in flight at a time.
MaxInFlight == 2

\* Largest sequence number handed to NodeView.update in SpecNodeView.
MaxUpdateSeq == 4

\* Largest this_update_micros handed to LocalCache.put in SpecCache; its clock
\* runs from 0 to MaxMicros + 1.
MaxMicros == 2

\* PUTs the replicas accept from clients, all replicas together.
MaxPuts == 2

\* Ticks each replica's wall clock makes after start.
MaxTicks == 2

\* State-transfer tasks running at the same time.
MaxTransfers == 1

\* Largest origin_node_update_seq of the entries put in SpecIter.
MaxIterSeq == 3

\* Ticks the wall clock makes in SpecIter.
MaxIterTicks == 2

\* PeerAuthenticator::TOKEN_VALIDITY (1 s), in clock ticks.
TOKEN_VALIDITY == 2

\* Bytes of a MAC (32 for HMAC-SHA3-256), scaled down.
MacLen == 2

\* Largest sequence number in SpecView: issued locally, received from a peer
\* or found in a pushed view.
MaxViewSeq == 2

\* Largest time to live a replica is configured with in SpecTtl.
MaxTtl == 2

\* cache_item_ttl_micros, the configured time to live, in clock ticks.
cache_item_ttl_micros == 1

\* ------------------------------------------------------------- input sets

Ordinals == {0, 1}

\* DistributedCache::new: local_node_id = (now_seconds & 0xffff_ffff) << 32 |
\* ordinal.  Both replicas are taken to start in second 1 and the shift is
\* scaled to one decimal digit: ids 10 and 11.
local_node_id(ordinal) == 10 + ordinal

NodeIds == {local_node_id(o) : o \in Ordinals}

Keys == {"k1", "k2"}


\* The payload of the n-th PUT accepted by the replica of an ordinal.  The
\* cache never looks into object_bytes, so each accepted PUT is given a payload
\* of its own: which write a replica returns can then be read off the bytes.
Payloads == << <<"a1", "a2", "a3", "a4">>, <<"b1", "b2", "b3", "b4">> >>

PayloadOf(ordinal, n) == Payloads[ordinal + 1][n]

\* ---------------------------------------------------------------- NodeView

\* KnownSequences::default(): both counters start at zero.
KnownSequencesDefault == [baseline_seq |-> 0, latest_seq |-> 0]

\* NodeView::get_baseline_sequence
get_baseline_sequence(view) == view.baseline_seq

MutInSyncOnGreater(view, new_sequence) == view.baseline_seq < new_sequence

MutInSyncAcrossHole(view, new_sequence) ==
    new_sequence \in {view.baseline_seq + 1, view.baseline_seq + 2}

\* The branch of NodeView::update: in sync iff baseline_seq + 1 == latest_seq
\* (latest_seq already holds new_sequence when the test runs).
InSyncAfterUpdate(view, new_sequence) == view.baseline_seq + 1 = new_sequence

MutBaselineFollowsLatest(view, new_sequence) ==
    [baseline_seq |-> new_sequence, latest_seq |-> new_sequence]

\* NodeView::update: the counters after the call.
NodeViewUpdate(view, new_sequence) ==
    LET current == [view EXCEPT !.latest_seq = new_sequence]
    IN  IF InSyncAfterUpdate(current, current.latest_seq)
        THEN [current EXCEPT !.baseline_seq = new_sequence]
        ELSE current

\* NodeView::update: the value it returns.
NodeViewUpdateResult(view, new_sequence) == InSyncAfterUpdate(view, new_sequence)

\* The largest b such that every value of 1..b is in S.
DenseUpTo(S) ==
    CHOOSE b \in 0..MaxUpdateSeq + 1 :
        /\ \A i \in 1..b : i \in S
        /\ (b + 1) \notin S

NvInit ==
    /\ nv = KnownSequencesDefault
    /\ nvSupplied = {}
    /\ nvLast = [arg |-> 0, ret |-> FALSE, prev |-> KnownSequencesDefault]

\* One call of NodeView::update with an arbitrary sequence number.
NvUpdate(n) ==
    /\ nv' = NodeViewUpdate(nv, n)
    /\ nvSupplied' = nvSupplied \cup {n}
    /\ nvLast' = [arg |-> n, ret |-> NodeViewUpdateResult(nv, n), prev |-> nv]
    /\ UNCHANGED <<lcVars, dcVars, cvVars, itVars, paVars, utVars, gsVars>>

NvNext == \E n \in 1..MaxUpdateSeq : NvUpdate(n)

\* -------------------------------------------------------------- LocalCache

\* The cache is a map from keys to entries: a function whose domain is the
\* set of keys present (SkipMap<String, Arc<CacheEntry>>).
EmptyCache == [k \in {} |-> 0]

\* struct CacheEntry (the arguments in the order of LocalCache::put).
CacheEntry(bytes, this_update, origin_id, origin_seq, expires) ==
    [object_bytes |-> bytes,
     this_update_micros |-> this_update,
     origin_node_id |-> origin_id,
     origin_node_update_seq |-> origin_seq,
     expires_micros |-> expires]

NotFound == [kind |-> "NotFound", bytes |-> ""]
Ok == [kind |-> "Ok", bytes |-> ""]
Found(bytes) == [kind |-> "Ok", bytes |-> bytes]

\* The closure handed to compare_insert by LocalCache::put: the incumbent is
\* replaced iff it is strictly older.
MutReplaceOnTie(old_cde, this_update_micros) ==
    old_cde.this_update_micros <= this_update_micros

MutReplaceAlways(old_cde, this_update_micros) == TRUE

MutReversed(old_cde, this_update_micros) ==
    old_cde.this_update_micros > this_update_micros

IsOlder(old_cde, this_update_micros) ==
    old_cde.this_update_micros < this_update_micros

MutNoWrite(cache, cache_key, entry) == cache

\* LocalCache::put: SkipMap::compare_insert, one linearizable step per key.
LocalCachePut(cache, cache_key, entry) ==
    IF cache_key \in DOMAIN cache
       /\ ~IsOlder(cache[cache_key], entry.this_update_micros)
    THEN cache
    ELSE [k \in DOMAIN cache \cup {cache_key} |->
             IF k = cache_key THEN entry ELSE cache[k]]

\* The filter of LocalCache::get.
IsReadable(cde, now_micros) == cde.expires_micros >= now_micros

\* LocalCache::get
LocalCacheGet(cache, cache_key, now_micros) ==
    IF cache_key \in DOMAIN cache /\ IsReadable(cache[cache_key], now_micros)
    THEN Found(cache[cache_key].object_bytes)
    ELSE NotFound

\* The filter of the purge pass of LocalCache::purge_expired.
IsPurgeable(cde, now_micros) == cde.expires_micros < now_micros

\* One pass of LocalCache::purge_expired.
PurgeExpired(cache, now_micros) ==
    [k \in {x \in DOMAIN cache : ~IsPurgeable(cache[x], now_micros)} |-> cache[k]]

\* The (object_bytes, origin_node_id, origin_node_update_seq) triples handed
\* to put in SpecCache: two payloads that differ in every field.
LcPayloads == {<<"a", local_node_id(0), 1>>, <<"b", local_node_id(1), 2>>}

\* The entries handed to LocalCache.put in SpecCache: either payload, any
\* timestamp, any later expiry.
LcInputs ==
    {CacheEntry(p[1], t, p[2], p[3], e) :
        p \in LcPayloads, t \in 1..MaxMicros, e \in 2..MaxMicros + 1}

NoHistory == [stamps |-> {}, distinct |-> TRUE, newest |-> {}]

\* What has been put for one key so far: the timestamps, whether they were
\* pairwise distinct, and the entry put with the greatest timestamp.
Remember(h, entry) ==
    [stamps |-> h.stamps \cup {entry.this_update_micros},
     distinct |-> h.distinct /\ entry.this_update_micros \notin h.stamps,
     newest |-> IF \A e \in h.newest :
                      e.this_update_micros < entry.this_update_micros
                THEN {entry} ELSE h.newest]

LcInit ==
    /\ lc = EmptyCache
    /\ lcNow = 0
    /\ lcHist = [k \in Keys |-> NoHistory]
    /\ lcLast = [op |-> "new", key |-> "", arg |-> {}, ret |-> Ok]
    /\ lcPass = [phase |-> "idle", now |-> 0, cursor |-> 0, held |-> {}]

\* One call of LocalCache::put; concurrent callers are serialised by
\* compare_insert, so any interleaving is some order of these steps.
LcPut(cache_key, entry) ==
    /\ entry.expires_micros > entry.this_update_micros
    /\ lc' = LocalCachePut(lc, cache_key, entry)
    /\ lcHist' = [lcHist EXCEPT ![cache_key] = Remember(@, entry)]
    /\ lcLast' = [op |-> "put", key |-> cache_key, arg |-> {entry}, ret |-> Ok]
    /\ UNCHANGED <<lcPass, lcNow, nvVars, utVars, gsVars, dcVars, cvVars, itVars, paVars>>

\* One call of LocalCache::get.
LcGet(cache_key) ==
    /\ lcLast' = [op |-> "get", key |-> cache_key, arg |-> {},
                  ret |-> LocalCacheGet(lc, cache_key, lcNow)]
    /\ UNCHANGED <<lcPass, lc, lcNow, lcHist, nvVars, utVars, gsVars, dcVars, cvVars, itVars, paVars>>

\* One pass of the background purger.
LcPurge ==
    /\ lc' = PurgeExpired(lc, lcNow)
    /\ lcLast' = [op |-> "purge", key |-> "", arg |-> {}, ret |-> Ok]
    /\ UNCHANGED <<lcPass, lcNow, lcHist, nvVars, utVars, gsVars, dcVars, cvVars, itVars, paVars>>

\* The wall clock advances.
LcTick ==
    /\ lcNow <= MaxMicros
    /\ lcNow' = lcNow + 1
    /\ lcLast' = [op |-> "tick", key |-> "", arg |-> {}, ret |-> Ok]
    /\ UNCHANGED <<lcPass, lc, lcHist, nvVars, utVars, gsVars, dcVars, cvVars, itVars, paVars>>

LcNext ==
    \/ \E k \in Keys, e \in LcInputs : LcPut(k, e)
    \/ \E k \in Keys : LcGet(k)
    \/ LcPurge
    \/ LcTick

\* -------------------------------------------- LocalCache: transfer iterator

\* The order in which SkipMap iterates its keys.
KeyOrder == <<"k1", "k2">>

KeyIndex(k) == CHOOSE i \in 1..Len(KeyOrder) : KeyOrder[i] = k

MutSelectAboveSeq(ce, data_origin_id_and_baseline, now_micros) ==
    /\ ce.origin_node_id \in DOMAIN data_origin_id_and_baseline
    /\ ce.origin_node_update_seq
          > data_origin_id_and_baseline[ce.origin_node_id]
    /\ ce.expires_micros > now_micros

\* The filter of LocalCache::iter: the entry's origin is in the requested map,
\* its this_update_micros is above the requested baseline, and it has not
\* expired.
IsSelected(ce, data_origin_id_and_baseline, now_micros) ==
    /\ ce.origin_node_id \in DOMAIN data_origin_id_and_baseline
    /\ ce.this_update_micros > data_origin_id_and_baseline[ce.origin_node_id]
    /\ ce.expires_micros > now_micros

RECURSIVE SortByUpdateSeq(_, _)
\* sort_by_key on origin_node_update_seq: a stable sort of the selected keys,
\* which were collected in key order.
SortByUpdateSeq(cache, S) ==
    IF S = {} THEN <<>>
    ELSE LET first == CHOOSE k \in S : \A j \in S :
                 \/ cache[k].origin_node_update_seq < cache[j].origin_node_update_seq
                 \/ /\ cache[k].origin_node_update_seq = cache[j].origin_node_update_seq
                    /\ KeyIndex(k) <= KeyIndex(j)
         IN  <<first>> \o SortByUpdateSeq(cache, S \ {first})

\* LocalCache::iter, its eager part: the keys of the selected entries, sorted.
\* The entries themselves are looked up when the iterator is advanced.
LocalCacheIter(cache, data_origin_id_and_baseline, now_micros) ==
    SortByUpdateSeq(cache,
        {k \in DOMAIN cache :
            IsSelected(cache[k], data_origin_id_and_baseline, now_micros)})

\* ------------------------------------ LocalCache: the purge pass, stepwise
MutRemoveByKey(cache, cache_key, held) ==
    [k \in DOMAIN cache \ {cache_key} |-> cache[k]]

\* Entry::remove on the entry the pass holds: the map loses the key only if
\* that very entry is still the one stored (a put that replaced it has
\* unlinked it already, and remove returns false).
EntryRemove(cache, cache_key, held) ==
    IF cache_key \in DOMAIN cache /\ cache[cache_key] \in held
    THEN [k \in DOMAIN cache \ {cache_key} |-> cache[k]]
    ELSE cache

\* A pass of purge_expired begins: it reads the clock once.
LcPurgeBegin ==
    /\ lcPass.phase = "idle"
    /\ lcPass' = [phase |-> "visit", now |-> lcNow, cursor |-> 0, held |-> {}]
    /\ lcLast' = [op |-> "purge_begin", key |-> "", arg |-> {}, ret |-> Ok]
    /\ UNCHANGED <<lc, lcNow, lcHist, nvVars, utVars, gsVars, dcVars, cvVars, itVars, paVars>>

\* The iterator of the pass moves to the next key of the map and the filter
\* reads its entry; past the last key the pass ends (and sleeps).
LcPurgeVisit ==
    /\ lcPass.phase = "visit"
    /\ LET ahead == {i \in 1..Len(KeyOrder) :
                       i > lcPass.cursor /\ KeyOrder[i] \in DOMAIN lc}
       IN  IF ahead = {}
           THEN lcPass' = [lcPass EXCEPT !.phase = "idle"]
           ELSE LET i == CHOOSE x \in ahead : \A y \in ahead : x <= y
                    cde == lc[KeyOrder[i]]
                IN  lcPass' = [lcPass EXCEPT
                       !.cursor = i,
                       !.phase = IF IsPurgeable(cde, lcPass.now)
                                 THEN "remove" ELSE "visit",
                       !.held = IF IsPurgeable(cde, lcPass.now)
                                THEN {cde} ELSE {}]
    /\ lcLast' = [op |-> "purge_visit", key |-> "", arg |-> {}, ret |-> Ok]
    /\ UNCHANGED <<lc, lcNow, lcHist, nvVars, utVars, gsVars, dcVars, cvVars, itVars, paVars>>

\* The pass removes the entry that passed its filter.
LcPurgeRemove ==
    /\ lcPass.phase = "remove"
    /\ lc' = EntryRemove(lc, KeyOrder[lcPass.cursor], lcPass.held)
    /\ lcPass' = [lcPass EXCEPT !.phase = "visit", !.held = {}]
    /\ lcLast' = [op |-> "purge_remove", key |-> KeyOrder[lcPass.cursor],
                  arg |-> lcPass.held, ret |-> Ok]
    /\ UNCHANGED <<lcNow, lcHist, nvVars, utVars, gsVars, dcVars, cvVars, itVars, paVars>>

\* The cache with its purger at work among the puts and gets.
PurgeNext ==
    \/ \E k \in Keys, e \in LcInputs : LcPut(k, e)
    \/ \E k \in Keys : LcGet(k)
    \/ LcTick
    \/ LcPurgeBegin
    \/ LcPurgeVisit
    \/ LcPurgeRemove

\* ------------------------- one LocalCache and its iterator (SpecIter)

\* The origins whose entries reach the cache.
ItOrigins == {local_node_id(0), local_node_id(1)}

\* The entries put into the cache: the n-th PUT of an origin, stamped
\* MaxIterSeq + n by its clock (timestamps lie far above sequence numbers)
\* and expiring cache_item_ttl_micros later.
ItInputs ==
    {CacheEntry(<<o, n>>, MaxIterSeq + n, o, n,
                MaxIterSeq + n + cache_item_ttl_micros) :
        o \in ItOrigins, n \in 1..MaxIterSeq}

\* The key of the n-th PUT of an origin: each PUT writes one key; the PUTs of
\* an origin alternate between the keys, those of the first origin starting
\* at the first key and those of the second at the second.
ItKeyOf(entry) ==
    KeyOrder[1 + ((entry.origin_node_update_seq + entry.origin_node_id
                     - local_node_id(0) + 1) % 2)]

\* The maps a state transfer is requested with: origin -> baseline.
ItMaps == UNION {[D -> 0..MaxIterSeq] : D \in SUBSET ItOrigins}

ItNone == [state |-> "none", keys |-> <<>>, map |-> EmptyCache, now |-> 0]

ItInit ==
    /\ itCache = EmptyCache
    /\ itNow = MaxIterSeq + 1
    /\ it = ItNone
    /\ itYielded = <<>>

\* LocalCache::put, by put_bytes or by a put_cache_entry handler.
ItPut(cache_key, entry) ==
    /\ itCache' = LocalCachePut(itCache, cache_key, entry)
    /\ UNCHANGED <<itNow, it, itYielded, nvVars, utVars, gsVars, lcVars, dcVars, cvVars, paVars>>

\* One pass of the background purger.
ItPurge ==
    /\ itCache' = PurgeExpired(itCache, itNow)
    /\ UNCHANGED <<itNow, it, itYielded, nvVars, utVars, gsVars, lcVars, dcVars, cvVars, paVars>>

\* The wall clock advances.
ItTick ==
    /\ itNow < MaxIterSeq + 1 + MaxIterTicks
    /\ itNow' = itNow + 1
    /\ UNCHANGED <<itCache, it, itYielded, nvVars, utVars, gsVars, lcVars, dcVars, cvVars, paVars>>

\* LocalCache::iter is called: the clock is read, the keys are selected and
\* sorted, and an iterator over them is returned.
ItNew(data_origin_id_and_baseline) ==
    /\ it.state # "running"
    /\ it' = [state |-> "running",
              keys |-> LocalCacheIter(itCache, data_origin_id_and_baseline,
                                      itNow),
              map |-> data_origin_id_and_baseline,
              now |-> itNow]
    /\ itYielded' = <<>>
    /\ UNCHANGED <<itCache, itNow, nvVars, utVars, gsVars, lcVars, dcVars, cvVars, paVars>>

\* The consumer (the task of transfer_state) advances the iterator: the next
\* key is looked up in the cache as it is now, and what is found is yielded;
\* a key that is gone is skipped.  Past the last key the iterator ends.
ItAdvance ==
    /\ it.state = "running"
    /\ IF it.keys = <<>>
       THEN /\ it' = [it EXCEPT !.state = "done"]
            /\ itYielded' = itYielded
       ELSE /\ it' = [it EXCEPT !.keys = Tail(@)]
            /\ itYielded' = IF Head(it.keys) \in DOMAIN itCache
                            THEN Append(itYielded, itCache[Head(it.keys)])
                            ELSE itYielded
    /\ UNCHANGED <<itCache, itNow, nvVars, utVars, gsVars, lcVars, dcVars, cvVars, paVars>>

ItNext ==
    \/ \E e \in ItInputs : ItPut(ItKeyOf(e), e)
    \/ ItPurge
    \/ ItTick
    \/ \E m \in ItMaps : ItNew(m)
    \/ ItAdvance

\* -------------------------------------------------------- ClusterStateView

\* LocalSequence::generate_next on a counter reading seq: fetch_add(1) + 1,
\* one atomic step; the value is both what is returned and the new reading.
MutStaleRead(seq) == seq

MutRepeatSeq(seq) == IF seq = 0 THEN 1 ELSE seq

MutPulledAtZero(seq) == seq >= 0

\* LocalSequence::has_been_pulled
has_been_pulled(seq) == seq > 0

MutCurrentIsNext(seq) == seq + 1

\* LocalSequence::current
current(seq) == seq

generate_next(seq) == seq + 1

\* ClusterStateView::as_map of the view (node_id, seq, others): the local
\* pair once a sequence number has been issued, then one pair per NodeView
\* (inserted last).
AsMapOf(node_id, seq, others) ==
    LET own == IF has_been_pulled(seq) THEN {node_id} ELSE {}
    IN  [id \in own \cup DOMAIN others |->
            IF id \in DOMAIN others
            THEN get_baseline_sequence(others[id])
            ELSE current(seq)]

\* The test of get_out_of_sync_node_id_and_baselines on one pair of the
\* received view: the pair of the local node is skipped, an origin without a
\* NodeView is always reported, an origin with one when its baseline is below
\* the received one.
MutOutOfSyncOnEqual(node_id, others, id, baseline_seq) ==
    /\ id # node_id
    /\ \/ id \notin DOMAIN others
       \/ get_baseline_sequence(others[id]) <= baseline_seq

IsOutOfSync(node_id, others, id, baseline_seq) ==
    /\ id # node_id
    /\ \/ id \notin DOMAIN others
       \/ get_baseline_sequence(others[id]) < baseline_seq

\* ClusterStateView::get_out_of_sync_node_id_and_baselines of the view
\* (node_id, others).
OutOfSync(node_id, others, view) ==
    LET lagging == {id \in DOMAIN view :
                      IsOutOfSync(node_id, others, id, view[id])}
    IN  [id \in lagging |->
            IF id \in DOMAIN others
            THEN get_baseline_sequence(others[id]) ELSE 0]

\* as_map of replica r.
as_map(r) ==
    AsMapOf(local_node_id(r), local_sequence[r], other_nodes_update_seqs[r])

MutNoGap(r, view) == [id \in {} |-> 0]

\* get_out_of_sync_node_id_and_baselines of replica r.
get_out_of_sync_node_id_and_baselines(r, view) ==
    OutOfSync(local_node_id(r), other_nodes_update_seqs[r], view)

MutObserveKnownOnly(others, node_id, update_seq) ==
    [id \in DOMAIN others |->
        IF id = node_id THEN NodeViewUpdate(others[id], update_seq)
        ELSE others[id]]

MutObserveAhead(others, node_id, update_seq) ==
    [id \in DOMAIN others \cup {node_id} |->
        IF id = node_id
        THEN [baseline_seq |-> update_seq + 1, latest_seq |-> update_seq + 1]
        ELSE others[id]]

\* ClusterStateView::on_recieved_cache_entry_from_other: the NodeView map
\* after the call (get_or_insert_with, then NodeView::update).
on_recieved_cache_entry_from_other(others, node_id, update_seq) ==
    LET view == IF node_id \in DOMAIN others
                THEN others[node_id] ELSE KnownSequencesDefault
    IN  [id \in DOMAIN others \cup {node_id} |->
            IF id = node_id THEN NodeViewUpdate(view, update_seq)
            ELSE others[id]]

\* ------------------------------------- one ClusterStateView (SpecView)

\* The view of node 10 in a cluster of three: its peers are 11 and 12.
CvNodeId == local_node_id(0)

CvPeerIds == {local_node_id(1), local_node_id(2)}

EmptyView == [id \in {} |-> 0]

\* The maps a peer can push: an as_map of that peer, in which the peer's own
\* pair is absent (nothing issued yet) or at least 1.
CvViews ==
    {view \in UNION {[D -> 0..MaxViewSeq] : D \in SUBSET ({CvNodeId} \cup CvPeerIds)} :
        \E p \in CvPeerIds : p \notin DOMAIN view \/ view[p] >= 1}

\* The baseline the view holds for an origin, 0 without a NodeView.
LocalBaseline(others, id) ==
    IF id \in DOMAIN others THEN get_baseline_sequence(others[id]) ELSE 0

\* The counters of the view as they stand: the local sequence and the
\* baseline of every NodeView.
CvCounters ==
    [seq |-> cvSeq,
     base |-> [id \in DOMAIN cvOthers |-> get_baseline_sequence(cvOthers[id])]]

CvIdle ==
    [phase |-> "idle", ret |-> EmptyView, cursor |-> 0, pulled |-> FALSE,
     since |-> [seq |-> 0, base |-> EmptyView]]

CvCall(op, view, ret) ==
    [op |-> op, view |-> view, ret |-> ret,
     base |-> [id \in DOMAIN view |-> LocalBaseline(cvOthers, id)]]

CvInit ==
    /\ cvSeq = 0
    /\ cvOthers = EmptyView
    /\ cvIssued = <<>>
    /\ cvMap = CvIdle
    /\ cvLast = CvCall("new", EmptyView, EmptyView)

\* next_local_update_seq: one call of generate_next.  Concurrent callers are
\* serialised by the atomic fetch_add, so they are some order of these steps.
CvGenerateNext ==
    /\ Len(cvIssued) < MaxViewSeq
    /\ cvSeq' = generate_next(cvSeq)
    /\ cvIssued' = Append(cvIssued, generate_next(cvSeq))
    /\ cvLast' = CvCall("generate_next", EmptyView, EmptyView)
    /\ UNCHANGED <<cvOthers, cvMap, nvVars, utVars, gsVars, lcVars, dcVars, itVars, paVars>>

\* on_recieved_cache_entry_from_other, called by the put_cache_entry handler.
CvOnReceived(node_id, update_seq) ==
    /\ cvOthers' = on_recieved_cache_entry_from_other(cvOthers, node_id,
                                                      update_seq)
    /\ cvLast' = [CvCall("on_recieved", EmptyView, EmptyView) EXCEPT
                    !.base = EmptyView]
    /\ UNCHANGED <<cvSeq, cvIssued, cvMap, nvVars, utVars, gsVars, lcVars, dcVars, itVars, paVars>>

\* as_map starts: the test of has_been_pulled.  (since notes the counters at
\* that moment, for the claims.)
CvAsMapBegin ==
    /\ cvMap.phase # "running"
    /\ cvMap' = [phase |-> "running", cursor |-> 0, ret |-> EmptyView,
                 pulled |-> has_been_pulled(cvSeq), since |-> CvCounters]
    /\ cvLast' = CvCall("as_map", EmptyView, EmptyView)
    /\ UNCHANGED <<cvSeq, cvOthers, cvIssued, nvVars, utVars, gsVars, lcVars, dcVars, itVars, paVars>>

\* The NodeViews the iteration of as_map has not passed yet.
CvAhead == {id \in DOMAIN cvOthers : id > cvMap.cursor}

\* as_map goes on: after a positive test of has_been_pulled it inserts the
\* local pair with what current() reads now; then it visits the next NodeView
\* of the SkipMap (in key order; other calls may run at the await of
\* get_baseline_sequence) or, past the last, returns.
CvAsMapStep ==
    /\ cvMap.phase = "running"
    /\ IF cvMap.pulled
       THEN cvMap' = [cvMap EXCEPT
              !.pulled = FALSE,
              !.ret = [x \in {CvNodeId} |-> current(cvSeq)]]
       ELSE IF CvAhead = {}
       THEN cvMap' = [cvMap EXCEPT !.phase = "done"]
       ELSE LET id == CHOOSE x \in CvAhead : \A y \in CvAhead : x <= y
            IN  cvMap' = [cvMap EXCEPT
                   !.cursor = id,
                   !.ret = [x \in DOMAIN cvMap.ret \cup {id} |->
                              IF x = id
                              THEN get_baseline_sequence(cvOthers[id])
                              ELSE cvMap.ret[x]]]
    /\ cvLast' = CvCall("as_map", EmptyView, EmptyView)
    /\ UNCHANGED <<cvSeq, cvOthers, cvIssued, nvVars, utVars, gsVars, lcVars, dcVars, itVars, paVars>>

\* get_out_of_sync_node_id_and_baselines on a view a peer pushed.
CvDiff(view) ==
    /\ cvLast' = CvCall("diff", view, OutOfSync(CvNodeId, cvOthers, view))
    /\ UNCHANGED <<cvSeq, cvOthers, cvIssued, cvMap, nvVars, utVars, gsVars, lcVars, dcVars, itVars, paVars>>

\* get_out_of_sync_node_id_and_baselines on what as_map of this very view
\* returned earlier.
CvDiffOwn ==
    /\ cvMap.phase = "done"
    /\ cvLast' = CvCall("diff_own", cvMap.ret,
                        OutOfSync(CvNodeId, cvOthers, cvMap.ret))
    /\ UNCHANGED <<cvSeq, cvOthers, cvIssued, cvMap, nvVars, utVars, gsVars, lcVars, dcVars, itVars, paVars>>

\* The view at work: local PUTs, put-entry handlers, and the gossip loop
\* taking as_map; what as_map returned is compared with the view later.
CvNext ==
    \/ CvGenerateNext
    \/ \E id \in CvPeerIds, n \in 1..MaxViewSeq : CvOnReceived(id, n)
    \/ CvAsMapBegin
    \/ CvAsMapStep
    \/ CvDiffOwn

\* The view as the receiver of pushes: put-entry handlers, and
\* get_out_of_sync_node_id_and_baselines on whatever a peer pushes.
CvDiffNext ==
    \/ \E id \in CvPeerIds, n \in 1..MaxViewSeq : CvOnReceived(id, n)
    \/ \E view \in CvViews : CvDiff(view)

\* -------------------------------------------------------- DistributedCache

\* DistributedCache::get_highest_known_node_ordinal
get_highest_known_node_ordinal(r) ==
    IF known_nodes[r] = {} THEN r
    ELSE CHOOSE o \in known_nodes[r] : \A p \in known_nodes[r] : p <= o

MutTargetsBelow(r) == {o \in 0..r : o # r}

\* The ordinals notify_other_nodes and broadcast_update send to.
Targets(r) == {o \in 0..get_highest_known_node_ordinal(r) : o # r}

\* The entry the put_cache_entry handler stores: the request's fields as
\* they came, no clock rewrite.
MutRestamped(entry, now_micros) ==
    [entry EXCEPT !.this_update_micros = now_micros,
                  !.expires_micros = now_micros + cache_item_ttl_micros]

RemoteEntry(entry, now_micros) == entry

\* DistributedCache::get_bytes
get_bytes(r, cache_key) == LocalCacheGet(local_cache[r], cache_key, clock[r])

\* DistributedCache::get_string: String::from_utf8 of get_bytes.  Every
\* payload of this model was written by put_string, so the decoding succeeds.
get_string(r, cache_key) == get_bytes(r, cache_key)

\* The entry stored for a key, as a set of at most one element.
Stored(cache, cache_key) ==
    IF cache_key \in DOMAIN cache THEN {cache[cache_key]} ELSE {}

NoOp == [op |-> "none", node |-> 0, peer |-> 0, key |-> "", entry |-> {},
         before |-> {}, adv |-> 0, ok |-> TRUE, ret |-> Ok]

\* DistributedCache::new on every replica.
DcNew ==
    /\ clock = [r \in Ordinals |-> MaxPuts + 1]
    /\ local_cache = [r \in Ordinals |-> EmptyCache]
    /\ local_sequence = [r \in Ordinals |-> 0]
    /\ other_nodes_update_seqs = [r \in Ordinals |-> EmptyCache]
    /\ net = {}
    /\ transfers = {}
    /\ putLog = {}
    /\ received = [r \in Ordinals |-> {}]
    /\ last = NoOp

\* The times to live a replica can be configured with (CLACHELESS_TTL).
TtlConfigs == 0..MaxTtl

\* The replicas have just started with any configured time to live and can
\* reach each other.
DcInitAnyTtl ==
    /\ DcNew
    /\ item_ttl_micros \in TtlConfigs
    /\ known_nodes = [r \in Ordinals |-> {}]
    /\ connected = TRUE

\* The replicas have just started and can reach each other.
DcInit ==
    /\ DcNew
    /\ item_ttl_micros = cache_item_ttl_micros
    /\ known_nodes = [r \in Ordinals |-> {}]
    /\ connected = TRUE

\* The replicas have exchanged their first (empty) state views, and then the
\* network between them went down.
DcInitPartitioned ==
    /\ DcNew
    /\ item_ttl_micros = cache_item_ttl_micros
    /\ known_nodes = [r \in Ordinals |-> Ordinals \ {r}]
    /\ connected = FALSE

\* crate::time::get_timestamp_micros of replica r moves on.
Tick(r) ==
    /\ clock[r] < MaxPuts + 1 + MaxTicks
    /\ clock' = [clock EXCEPT ![r] = @ + 1]
    /\ UNCHANGED <<item_ttl_micros, local_cache, local_sequence, other_nodes_update_seqs,
                   known_nodes, net, transfers, connected, putLog, received,
                   last, nvVars, utVars, gsVars, lcVars, cvVars, itVars, paVars>>

\* DistributedCache::put_bytes at replica r (put_string hands it the bytes of
\* the string): a fresh sequence number, the timestamp, one spawned put-entry
\* RPC per live peer (broadcast_update returns Ok without awaiting the tasks,
\* and its result is dropped), then the local write, whose result is returned.
PutBytes(r, cache_key, cache_value) ==
    /\ Cardinality(putLog) < MaxPuts
    /\ LET update_seq == generate_next(local_sequence[r])
           this_update_micros == clock[r]
           expires == this_update_micros + item_ttl_micros
           entry == CacheEntry(cache_value, this_update_micros,
                               local_node_id(r), update_seq, expires)
       IN  /\ local_sequence' = [local_sequence EXCEPT ![r] = update_seq]
           /\ net' = net \cup {[to |-> o, key |-> cache_key, entry |-> entry] :
                                 o \in Targets(r)}
           /\ local_cache' = [local_cache EXCEPT
                                ![r] = LocalCachePut(@, cache_key, entry)]
           /\ putLog' = putLog \cup
                          {[node |-> r, key |-> cache_key, entry |-> entry]}
           /\ last' = [NoOp EXCEPT !.op = "put_bytes", !.node = r,
                                   !.key = cache_key, !.entry = {entry},
                                   !.before = Stored(local_cache[r], cache_key),
                                   !.ret = Ok]
    /\ UNCHANGED <<item_ttl_micros, clock, other_nodes_update_seqs, known_nodes, transfers,
                   connected, received, nvVars, utVars, gsVars, lcVars, cvVars, itVars, paVars>>

\* DistributedCache::put_raw_from_remote_origin at replica r, the body of the
\* put_cache_entry handler: the cache write, then the NodeView update.
PutRawFromRemoteOrigin(r, cache_key, entry) ==
    /\ local_cache' = [local_cache EXCEPT
           ![r] = LocalCachePut(@, cache_key, RemoteEntry(entry, clock[r]))]
    /\ other_nodes_update_seqs' = [other_nodes_update_seqs EXCEPT
           ![r] = on_recieved_cache_entry_from_other(
                      @, entry.origin_node_id, entry.origin_node_update_seq)]
    /\ received' = [received EXCEPT ![r] = @ \cup
           {<<entry.origin_node_id, entry.origin_node_update_seq>>}]

\* A put-entry RPC of a broadcast reaches its peer.
DeliverUpdate(m) ==
    /\ connected
    /\ PutRawFromRemoteOrigin(m.to, m.key, m.entry)
    /\ net' = net \ {m}
    /\ last' = NoOp
    /\ UNCHANGED <<item_ttl_micros, clock, local_sequence, known_nodes, transfers, connected,
                   putLog, nvVars, utVars, gsVars, lcVars, cvVars, itVars, paVars>>

\* A put-entry RPC of a broadcast fails (dial or send): the spawned task ends.
LoseUpdate(m) ==
    /\ net' = net \ {m}
    /\ last' = NoOp
    /\ UNCHANGED <<item_ttl_micros, clock, local_cache, local_sequence, other_nodes_update_seqs,
                   known_nodes, transfers, connected, putLog, received,
                   nvVars, utVars, gsVars, lcVars, cvVars, itVars, paVars>>

\* A state-transfer task that has sent everything ends.
TransferDone(task) ==
    [NoOp EXCEPT !.op = "transfer_done", !.node = task.to, !.peer = task.from,
                 !.adv = task.adv, !.ok = task.ok]

\* The task that transfer_state spawns at replica s for the request of r: the
\* iterator over the entries r lacks, made when the request is handled.  (adv
\* notes what s had advertised of its own sequence, for the claims.)
TransferTask(s, r, view, gap) ==
    [from |-> s, to |-> r,
     keys |-> LocalCacheIter(local_cache[s], gap, clock[s]),
     adv |-> IF local_node_id(s) \in DOMAIN gap
             THEN view[local_node_id(s)] ELSE 0,
     ok |-> TRUE]

\* The dial to s or the init_state_transfer request of r has failed: logged.
RequestFailed(s, r) ==
    [NoOp EXCEPT !.op = "request_failed", !.node = r, !.peer = s, !.ok = FALSE]

\* on_state_view at replica r for the view pushed by s: r notes s as seen,
\* computes the gap and, when the gap is not empty, requests a state transfer
\* from s (ok: the request gets through), which makes s spawn the task of
\* transfer_state.
OnStateView(s, r, ok) ==
    LET view == as_map(s)
        gap == get_out_of_sync_node_id_and_baselines(r, view)
        task == TransferTask(s, r, view, gap)
    IN  /\ known_nodes' = [known_nodes EXCEPT ![r] = @ \cup {s}]
        /\ IF DOMAIN gap = {}
           THEN ok /\ transfers' = transfers /\ last' = NoOp
           ELSE IF ~ok
           THEN transfers' = transfers /\ last' = RequestFailed(s, r)
           ELSE IF task.keys = <<>>
           THEN transfers' = transfers /\ last' = TransferDone(task)
           ELSE /\ Cardinality(transfers) < MaxTransfers
                /\ transfers' = transfers \cup {task}
                /\ last' = NoOp

\* notify_other_nodes at replica s pushes as_map to peer r, and r handles it
\* in on_state_view.
PushStateView(s, r, ok) ==
    /\ connected
    /\ r \in Targets(s)
    /\ OnStateView(s, r, ok)
    /\ UNCHANGED <<item_ttl_micros, clock, local_cache, local_sequence, other_nodes_update_seqs,
                   net, connected, putLog, received, nvVars, utVars, gsVars, lcVars, cvVars, itVars, paVars>>

\* The task spawned by transfer_state advances its iterator by one key: it
\* looks the key up again, sends what it finds to the receiver and awaits the
\* reply (delivered: the put-entry RPC got through; a failed one is skipped).
TransferStep(task, delivered) ==
    /\ delivered => connected
    /\ LET key == Head(task.keys)
           present == key \in DOMAIN local_cache[task.from]
           rest == [task EXCEPT !.keys = Tail(task.keys),
                                !.ok = task.ok /\ (delivered \/ ~present)]
       IN  /\ IF present /\ delivered
              THEN PutRawFromRemoteOrigin(task.to, key,
                                          local_cache[task.from][key])
              ELSE UNCHANGED <<local_cache, other_nodes_update_seqs, received>>
           /\ IF rest.keys = <<>>
              THEN /\ transfers' = transfers \ {task}
                   /\ last' = TransferDone(rest)
              ELSE /\ transfers' = (transfers \ {task}) \cup {rest}
                   /\ last' = NoOp
    /\ UNCHANGED <<item_ttl_micros, clock, local_sequence, known_nodes, net, connected, putLog,
                   nvVars, utVars, gsVars, lcVars, cvVars, itVars, paVars>>

\* One pass of the purger of replica r.
Purge(r) ==
    /\ local_cache' = [local_cache EXCEPT ![r] = PurgeExpired(@, clock[r])]
    /\ last' = NoOp
    /\ UNCHANGED <<item_ttl_micros, clock, local_sequence, other_nodes_update_seqs, known_nodes,
                   net, transfers, connected, putLog, received, nvVars, utVars, gsVars, lcVars, cvVars, itVars, paVars>>

\* The alive window of ordinal o passes at replica r without a push from o:
\* get_highest_known_node_ordinal no longer counts it and
\* remove_expired_other_nodes removes it.
LoseSight(r, o) ==
    /\ o \in known_nodes[r]
    /\ known_nodes' = [known_nodes EXCEPT ![r] = @ \ {o}]
    /\ last' = NoOp
    /\ UNCHANGED <<item_ttl_micros, clock, local_cache, local_sequence, other_nodes_update_seqs,
                   net, transfers, connected, putLog, received, nvVars, utVars, gsVars, lcVars, cvVars, itVars, paVars>>

\* The network between the replicas comes back.
Heal ==
    /\ ~connected
    /\ connected' = TRUE
    /\ last' = NoOp
    /\ UNCHANGED <<item_ttl_micros, clock, local_cache, local_sequence, other_nodes_update_seqs,
                   known_nodes, net, transfers, putLog, received, nvVars, utVars, gsVars, lcVars, cvVars, itVars, paVars>>

DcNext ==
    \/ \E r \in Ordinals : Tick(r)
    \/ \E r \in Ordinals, k \in Keys :
          PutBytes(r, k, PayloadOf(r, local_sequence[r] + 1))
    \/ \E m \in net : DeliverUpdate(m)
    \/ \E m \in net : LoseUpdate(m)
    \/ \E s \in Ordinals, r \in Ordinals, ok \in BOOLEAN : PushStateView(s, r, ok)
    \/ \E task \in transfers, delivered \in BOOLEAN : TransferStep(task, delivered)
    \/ \E r \in Ordinals : Purge(r)
    \/ \E r \in Ordinals, o \in Ordinals : LoseSight(r, o)

\* Local PUTs and their broadcasts, for the entries the caches come to hold.
TtlNext ==
    \/ \E r \in Ordinals : Tick(r)
    \/ \E r \in Ordinals, k \in Keys :
          PutBytes(r, k, PayloadOf(r, local_sequence[r] + 1))
    \/ \E m \in net : DeliverUpdate(m)
    \/ \E m \in net : LoseUpdate(m)

\* ------------------------------------------------------- PeerAuthenticator

\* The cluster's secret (/secrets/dc/key) and somebody else's.
Secret == "key"

PaSecrets == {Secret, "other"}

RECURSIVE ToBeBytes(_, _)
\* The n low bytes of x, most significant first.
ToBeBytes(x, n) ==
    IF n = 0 THEN <<>> ELSE Append(ToBeBytes(x \div 256, n - 1), x % 256)

\* u64::to_be_bytes
to_be_bytes(x) == ToBeBytes(x, 8)

RECURSIVE from_be_bytes(_)
\* u64::from_be_bytes
from_be_bytes(bytes) ==
    IF bytes = <<>> THEN 0
    ELSE from_be_bytes(SubSeq(bytes, 1, Len(bytes) - 1)) * 256
           + bytes[Len(bytes)]

\* PeerAuthenticator::create_mac: HMAC-SHA3-256 of the message under the
\* secret, taken as an ideal MAC: MacLen bytes that no other pair of secret
\* and message produces.
create_mac(secret, message) == [i \in 1..MacLen |-> <<secret, message, i>>]

\* A header value: base64url text of some bytes, or text that is not
\* base64url; a request may also carry no internal-auth header at all.
B64(bytes) == [kind |-> "b64", bytes |-> bytes]

NotB64 == [kind |-> "text", bytes |-> <<>>]

NoHeader == [kind |-> "none", bytes |-> <<>>]

\* tyst::encdec::base64::encode_url
encode_url(bytes) == B64(bytes)

\* tyst::encdec::base64::decode_url(..).unwrap_or_default(): no bytes for
\* text that does not decode.
decode_url(text) == IF text.kind = "b64" THEN text.bytes ELSE <<>>

\* PeerAuthenticator::create_token when the clock reads now_micros.
create_token(secret, now_micros) ==
    LET time == to_be_bytes(now_micros)
    IN  encode_url(time \o create_mac(secret, time))

\* What a call does: it returns a value, or it panics.
Returns(value) == [panics |-> FALSE, value |-> value]

Panics == [panics |-> TRUE, value |-> FALSE]

\* The last test of is_token_valid.  (Clock readings are microseconds since
\* 1970, far above TOKEN_VALIDITY: the u64 subtraction does not wrap.)
MutFreshAtBoundary(ts_micros, now_micros) ==
    ts_micros >= now_micros - TOKEN_VALIDITY

IsFresh(ts_micros, now_micros) == ts_micros > now_micros - TOKEN_VALIDITY

\* PeerAuthenticator::is_token_valid when the clock reads now_micros.  The
\* slice time_and_mac[0..8] of fewer than 8 bytes is out of range: a panic.
is_token_valid(secret, b64urlenc, now_micros) ==
    LET time_and_mac == decode_url(b64urlenc)
    IN  IF time_and_mac = <<>> THEN Returns(FALSE)
        ELSE IF Len(time_and_mac) < 8 THEN Panics
        ELSE LET time_bytes == SubSeq(time_and_mac, 1, 8)
                 ts_micros == from_be_bytes(time_bytes)
                 mac == create_mac(secret, time_bytes)
             IN  Returns(/\ mac = SubSeq(time_and_mac, 9, Len(time_and_mac))
                         /\ IsFresh(ts_micros, now_micros))

\* The readings the clocks of this model can show.
PaTimes == (MaxPuts + 1)..(MaxPuts + 1 + MaxTicks)

\* The byte strings handed to is_token_valid: a time and a MAC (of that time
\* or of another, under the cluster's secret or another), cut to any length
\* or followed by one more byte.
PaBytes ==
    {SubSeq(to_be_bytes(t) \o create_mac(k, to_be_bytes(u))
              \o << <<k, <<>>, 0>> >>, 1, n) :
        t \in PaTimes, u \in PaTimes, k \in PaSecrets,
        n \in 0..(8 + MacLen + 1)}

PaHeaders == {NotB64} \cup {B64(bytes) : bytes \in PaBytes}

PaInit ==
    /\ paMinted = {}
    /\ paLast = [op |-> "none", header |-> NoHeader, now |-> 0,
                 ret |-> Returns(FALSE)]

\* Replica 0 makes a token for a request (GrpcClient's interceptor).
PaCreate ==
    /\ paMinted' = paMinted \cup
                     {[token |-> create_token(Secret, clock[0]),
                       at |-> clock[0]]}
    /\ UNCHANGED <<paLast, nvVars, utVars, gsVars, lcVars, dcVars, cvVars, itVars>>

\* Replica 1 checks a header value it received.
PaVerify(b64urlenc) ==
    /\ paLast' = [op |-> "is_token_valid", header |-> b64urlenc,
                  now |-> clock[1],
                  ret |-> is_token_valid(Secret, b64urlenc, clock[1])]
    /\ UNCHANGED <<paMinted, nvVars, utVars, gsVars, lcVars, dcVars, cvVars, itVars>>

PaNext ==
    \/ \E r \in Ordinals : Tick(r)
    \/ PaCreate
    \/ \E m \in paMinted : PaVerify(m.token)
    \/ \E h \in PaHeaders : PaVerify(h)

\* ------------------------------------------------------ live peers
\* The replicas of the cluster whose liveness maps are followed.
GsOrdinals == 0..2

\* The filter of get_highest_known_node_ordinal: last_seen is later than
\* the threshold now - MAX_AGE_BEFORE_IGNORED_MICROS.
IsLive(last_seen, now_micros) ==
    last_seen > now_micros - MAX_AGE_BEFORE_IGNORED_MICROS

\* DistributedCache::get_highest_known_node_ordinal over a liveness map:
\* the last (largest) key that passes the filter, or the local ordinal.
highest_known_node_ordinal(seen, local_node_ordinal, now_micros) ==
    LET live == {o \in DOMAIN seen : IsLive(seen[o], now_micros)}
    IN  IF live = {} THEN local_node_ordinal
        ELSE CHOOSE o \in live : \A p \in live : p <= o

\* The loop of notify_other_nodes and of broadcast_update:
\* 0..=highest, the local ordinal skipped.
SendTargets(seen, local_node_ordinal, now_micros) ==
    {o \in 0..highest_known_node_ordinal(seen, local_node_ordinal, now_micros) :
       o # local_node_ordinal}

\* The filter of on_state_view behind is_new: the sender is known when its
\* last_seen is not before the threshold.
WasKnown(seen, sender_ordinal, now_micros) ==
    /\ sender_ordinal \in DOMAIN seen
    /\ seen[sender_ordinal] >= now_micros - MAX_AGE_BEFORE_IGNORED_MICROS

\* The test of remove_expired_other_nodes: last_seen is before the threshold.
IsExpired(last_seen, now_micros) ==
    last_seen < now_micros - MAX_AGE_BEFORE_IGNORED_MICROS

GsSent(op, r, targets) ==
    [op |-> op, node |-> r, targets |-> targets, is_new |-> FALSE]

\* Every replica has just started: empty liveness maps.
GsInit ==
    /\ gsNow = MAX_AGE_BEFORE_IGNORED_MICROS
    /\ gsSeen = [r \in GsOrdinals |-> << >>]
    /\ gsPushes = {}
    /\ gsHeard = {}
    /\ gsLast = GsSent("none", 0, {})

\* crate::time::get_timestamp_micros moves on.
GsTick ==
    /\ gsNow < MAX_AGE_BEFORE_IGNORED_MICROS + MaxGossipTicks
    /\ gsNow' = gsNow + 1
    /\ gsLast' = GsSent("none", 0, {})
    /\ UNCHANGED <<gsSeen, gsPushes, gsHeard>>
    /\ UNCHANGED <<nvVars, utVars, lcVars, dcVars, cvVars, itVars, paVars>>

\* One round of notify_other_nodes at replica r: a push is spawned for
\* every target.
GsNotifyOtherNodes(r) ==
    /\ LET targets == SendTargets(gsSeen[r], r, gsNow)
           pushes == {[from |-> r, to |-> o] : o \in targets}
       IN  /\ Cardinality(gsPushes \cup pushes) <= MaxInFlight
           /\ gsPushes' = gsPushes \cup pushes
           /\ gsLast' = GsSent("notify_other_nodes", r, targets)
    /\ UNCHANGED <<gsNow, gsSeen, gsHeard>>
    /\ UNCHANGED <<nvVars, utVars, lcVars, dcVars, cvVars, itVars, paVars>>

\* broadcast_update at replica r: a put-entry RPC is spawned for every
\* target (the liveness maps take nothing from a put-entry).
GsBroadcastUpdate(r) ==
    /\ gsLast' = GsSent("broadcast_update", r, SendTargets(gsSeen[r], r, gsNow))
    /\ UNCHANGED <<gsNow, gsSeen, gsPushes, gsHeard>>
    /\ UNCHANGED <<nvVars, utVars, lcVars, dcVars, cvVars, itVars, paVars>>

\* on_state_view at the replica a push reaches: the sender's last_seen is
\* the time of the handler.
GsOnStateView(m) ==
    /\ gsSeen' = [gsSeen EXCEPT ![m.to] =
                    [o \in DOMAIN @ \cup {m.from} |->
                       IF o = m.from THEN gsNow ELSE @[o]]]
    /\ gsPushes' = gsPushes \ {m}
    /\ gsHeard' = gsHeard \cup {m.to}
    /\ gsLast' = [GsSent("on_state_view", m.to, {}) EXCEPT
                    !.is_new = ~WasKnown(gsSeen[m.to], m.from, gsNow)]
    /\ UNCHANGED gsNow
    /\ UNCHANGED <<nvVars, utVars, lcVars, dcVars, cvVars, itVars, paVars>>

\* A push fails: GrpcClient::new or push_state_view returns an error.
GsPushFailed(m) ==
    /\ gsPushes' = gsPushes \ {m}
    /\ gsLast' = GsSent("none", 0, {})
    /\ UNCHANGED <<gsNow, gsSeen, gsHeard>>
    /\ UNCHANGED <<nvVars, utVars, lcVars, dcVars, cvVars, itVars, paVars>>

\* One round of remove_expired_other_nodes at replica r.
GsRemoveExpired(r) ==
    /\ gsSeen' = [gsSeen EXCEPT ![r] =
                    [o \in {p \in DOMAIN @ : ~IsExpired(@[p], gsNow)} |-> @[o]]]
    /\ gsLast' = GsSent("remove_expired_other_nodes", r, {})
    /\ UNCHANGED <<gsNow, gsPushes, gsHeard>>
    /\ UNCHANGED <<nvVars, utVars, lcVars, dcVars, cvVars, itVars, paVars>>

GsNext ==
    \/ GsTick
    \/ \E r \in GsOrdinals : GsNotifyOtherNodes(r)
    \/ \E r \in GsOrdinals : GsBroadcastUpdate(r)
    \/ \E m \in gsPushes : GsOnStateView(m)
    \/ \E m \in gsPushes : GsPushFailed(m)
    \/ \E r \in GsOrdinals : GsRemoveExpired(r)

\* ------------------------------------------------- init_state_transfer
\* The reply of a handler that maps an error with Status::unknown.
StatusUnknown == [kind |-> "Unknown", bytes |-> ""]

\* The init_state_transfer handler at replica s for a request in the name of
\* replica r, for what r lacks of the view of s: transfer_state dials r
\* (dial: the connection opens) and returns the error of a failed dial, which
\* the handler answers with Status::unknown; after the dial it spawns the
\* task and returns Ok.
InitStateTransfer(s, r, dial) ==
    /\ s # r
    /\ LET view == as_map(s)
           gap == get_out_of_sync_node_id_and_baselines(r, view)
           task == TransferTask(s, r, view, gap)
           reply == [NoOp EXCEPT !.op = "init_state_transfer", !.node = s,
                                 !.peer = r, !.ok = dial]
       IN  /\ DOMAIN gap # {}
           /\ IF ~dial
              THEN /\ transfers' = transfers
                   /\ last' = [reply EXCEPT !.ret = StatusUnknown]
              ELSE /\ IF task.keys = <<>> THEN transfers' = transfers
                      ELSE /\ Cardinality(transfers) < MaxTransfers
                           /\ transfers' = transfers \cup {task}
                   /\ last' = [reply EXCEPT !.ret = Ok]
    /\ UNCHANGED <<item_ttl_micros, clock, local_cache, local_sequence, other_nodes_update_seqs,
                   known_nodes, net, connected, putLog, received,
                   nvVars, utVars, gsVars, lcVars, cvVars, itVars, paVars>>

\* The scenario of the transfer requests: a client makes one PUT at replica
\* 1 whose broadcast is lost, and requests for a transfer reach either
\* replica; a transfer's put-entry RPCs get through or fail.
TransferNext ==
    \/ \E r \in Ordinals : Tick(r)
    \/ \E k \in Keys :
          putLog = {} /\ PutBytes(1, k, PayloadOf(1, local_sequence[1] + 1))
    \/ \E m \in net : LoseUpdate(m)
    \/ \E s \in Ordinals, r \in Ordinals, dial \in BOOLEAN :
          InitStateTransfer(s, r, dial)
    \/ \E task \in transfers, delivered \in BOOLEAN :
          TransferStep(task, delivered)

\* -------------------------------------------------- authorization_interceptor
\* What the server's interceptor hands back: Ok(req), after which tonic calls
\* the handler, or Err(Status::unauthenticated), which tonic sends as the
\* reply without calling the handler.
Accepted == Returns(TRUE)

Unauthenticated == Returns(FALSE)

MutPassWithHeader(secret, header, now_micros) ==
    IF header = NoHeader THEN Unauthenticated ELSE Accepted

\* grpc_server::authorization_interceptor of a replica whose clock reads
\* now_micros, for a request with this internal-auth header (or none).
authorization_interceptor(secret, header, now_micros) ==
    IF header = NoHeader THEN Unauthenticated
    ELSE LET valid == is_token_valid(secret, header, now_micros)
         IN  IF valid.panics THEN Panics
             ELSE IF valid.value THEN Accepted ELSE Unauthenticated

\* The latest reading of PaTimes: a timestamp that is never too old.
PaLatest == MaxPuts + 1 + MaxTicks

\* The times of the tokens that reach a server: the readings of the clocks,
\* and one so early that the token is too old at the latest reading.
AuthTimes == {PaLatest - TOKEN_VALIDITY - 1} \cup PaTimes

\* The headers of the requests that reach a server: none, the tokens of
\* create_token under the cluster's secret, and with the latest time a token
\* under another secret, the time with the MAC of another time, and the time
\* alone.
AuthHeaders ==
    {NoHeader, create_token("other", PaLatest), B64(to_be_bytes(PaLatest)),
     B64(to_be_bytes(PaLatest) \o create_mac(Secret, to_be_bytes(MaxPuts + 1)))}
      \cup {create_token(Secret, t) : t \in AuthTimes}

\* The interceptor's answer to the last peer RPC.
Answer(op, header, now_micros) ==
    [op |-> op, header |-> header, now |-> now_micros,
     ret |-> authorization_interceptor(Secret, header, now_micros)]

\* A put_cache_entry request of a broadcast reaches its peer with this
\* header.
AuthPutCacheEntry(header, m) ==
    /\ connected
    /\ paLast' = Answer("put_cache_entry", header, clock[m.to])
    /\ IF paLast'.ret = Accepted
       THEN PutRawFromRemoteOrigin(m.to, m.key, m.entry)
       ELSE UNCHANGED <<local_cache, other_nodes_update_seqs, received>>
    /\ net' = net \ {m}
    /\ last' = NoOp
    /\ UNCHANGED <<item_ttl_micros, clock, local_sequence, known_nodes, transfers, connected,
                   putLog, paMinted, nvVars, utVars, gsVars, lcVars, cvVars, itVars>>

\* A state_view_update request of replica s reaches its peer r with this
\* header.  The init_state_transfer request that on_state_view may send back
\* carries the token r's client makes at that moment, and gets through if
\* the interceptor of s accepts it.
AuthStateViewUpdate(header, s, r) ==
    /\ connected
    /\ r \in Targets(s)
    /\ paLast' = Answer("state_view_update", header, clock[r])
    /\ IF paLast'.ret = Accepted
       THEN OnStateView(s, r,
                authorization_interceptor(
                    Secret, create_token(Secret, clock[r]), clock[s]) = Accepted)
       ELSE UNCHANGED <<known_nodes, transfers, last>>
    /\ UNCHANGED <<item_ttl_micros, clock, local_cache, local_sequence, other_nodes_update_seqs,
                   net, connected, putLog, received, paMinted,
                   nvVars, utVars, gsVars, lcVars, cvVars, itVars>>

\* An init_state_transfer request in the name of replica r, for what r lacks
\* of the view of s, reaches s with this header.
AuthInitStateTransfer(header, s, r) ==
    /\ connected
    /\ s # r
    /\ paLast' = Answer("init_state_transfer", header, clock[s])
    /\ LET view == as_map(s)
           gap == get_out_of_sync_node_id_and_baselines(r, view)
           task == TransferTask(s, r, view, gap)
       IN  /\ DOMAIN gap # {}
           /\ IF paLast'.ret # Accepted
              THEN transfers' = transfers /\ last' = NoOp
              ELSE IF task.keys = <<>>
              THEN transfers' = transfers /\ last' = TransferDone(task)
              ELSE /\ Cardinality(transfers) < MaxTransfers
                   /\ transfers' = transfers \cup {task}
                   /\ last' = NoOp
    /\ UNCHANGED <<item_ttl_micros, clock, local_cache, local_sequence, other_nodes_update_seqs,
                   known_nodes, net, connected, putLog, received, paMinted,
                   nvVars, utVars, gsVars, lcVars, cvVars, itVars>>

\* The put_cache_entry request of a running transfer carries the token the
\* sender's client makes at that moment.
AuthTransferStep(task) ==
    TransferStep(task, authorization_interceptor(
                           Secret, create_token(Secret, clock[task.from]),
                           clock[task.to]) = Accepted)

\* The scenario of the rejected peer RPCs: a client makes one PUT at replica
\* 1, and every peer RPC arrives with any of the headers.
AuthNext ==
    \/ \E r \in Ordinals : Tick(r)
    \/ \E k \in Keys :
          putLog = {} /\ PutBytes(1, k, PayloadOf(1, local_sequence[1] + 1))
    \/ \E h \in AuthHeaders, m \in net : AuthPutCacheEntry(h, m)
    \/ \E h \in AuthHeaders, s \in Ordinals, r \in Ordinals :
          AuthStateViewUpdate(h, s, r)
    \/ \E h \in AuthHeaders, s \in Ordinals, r \in Ordinals :
          AuthInitStateTransfer(h, s, r)
    \/ \E task \in transfers : AuthTransferStep(task)

\* ---------------------------------------------------------- util, config
\* Option<u32>.  A u32 is held as its two 16-bit halves, high half first.
Some(value) == [some |-> TRUE, value |-> value]

None == [some |-> FALSE, value |-> <<0, 0>>]

\* The u32 of a number below 2^31.
U32(n) == <<n \div 65536, n % 65536>>

AsciiDigits == <<"0", "1", "2", "3", "4", "5", "6", "7", "8", "9">>

IsDigit(c) == \E i \in DOMAIN AsciiDigits : AsciiDigits[i] = c

\* char::to_digit(10) of an ASCII digit.
ToDigit(c) == (CHOOSE i \in DOMAIN AsciiDigits : AsciiDigits[i] = c) - 1

\* result * 10 + digit, with the carry out of the high half kept in it.
MulAdd(result, digit) ==
    LET lo == result[2] * 10 + digit
    IN  <<result[1] * 10 + lo \div 65536, lo % 65536>>

RECURSIVE ParseDigits(_, _)
\* The loop of u32::from_str_radix(.., 10): a character that is no digit is
\* an error, and so is a product or a sum that does not fit in 32 bits.
ParseDigits(digits, result) ==
    IF digits = <<>> THEN Some(result)
    ELSE IF ~IsDigit(Head(digits)) THEN None
    ELSE LET next == MulAdd(result, ToDigit(Head(digits)))
         IN  IF next[1] >= 65536 THEN None
             ELSE ParseDigits(Tail(digits), next)

\* str::parse::<u32>().ok() of a string, given as its characters: a leading
\* '+' is taken, the empty string and a lone sign are errors.
parse_u32(src) ==
    LET digits == IF src # <<>> /\ Head(src) = "+" THEN Tail(src) ELSE src
    IN  IF digits = <<>> THEN None ELSE ParseDigits(digits, <<0, 0>>)

MutFirstDash(indices) == CHOOSE i \in indices : \A j \in indices : i <= j

\* match_indices('-').next_back(): the index of the last '-'.
LastDashIndex(indices) == CHOOSE i \in indices : \A j \in indices : j <= i

\* util::extract_ordinal_from_string
extract_ordinal_from_string(value) ==
    LET indices == {i \in DOMAIN value : value[i] = "-"}
    IN  IF indices = {} THEN None
        ELSE parse_u32(SubSeq(value, LastDashIndex(indices) + 1, Len(value)))

\* config::local_node_id when POD_NAME is set to pod_name.
ConfigLocalNodeId(pod_name) ==
    LET ordinal == extract_ordinal_from_string(pod_name)
    IN  IF ordinal.some THEN ordinal.value ELSE U32(0)

\* Texts without a '-', each with what it is as a u32: the ordinals of the
\* unit test, zero, leading zeros, a sign, the greatest u32, and then what is
\* no u32: one more than the greatest, too many digits, nothing, letters,
\* blanks, a lone sign.
UtSuffixes ==
    << [text |-> <<"1">>, u32 |-> Some(U32(1))],
       [text |-> <<"1", "2", "3">>, u32 |-> Some(U32(123))],
       [text |-> <<"0">>, u32 |-> Some(U32(0))],
       [text |-> <<"0", "0", "7">>, u32 |-> Some(U32(7))],
       [text |-> <<"+", "5">>, u32 |-> Some(U32(5))],
       [text |-> <<"6", "5", "5", "3", "6">>, u32 |-> Some(<<1, 0>>)],
       [text |-> <<"4", "2", "9", "4", "9", "6", "7", "2", "9", "5">>,
        u32 |-> Some(<<65535, 65535>>)],
       [text |-> <<"4", "2", "9", "4", "9", "6", "7", "2", "9", "6">>,
        u32 |-> None],
       [text |-> <<"9", "9", "9", "9", "9", "9", "9", "9", "9", "9", "9">>,
        u32 |-> None],
       [text |-> <<>>, u32 |-> None],
       [text |-> <<"x">>, u32 |-> None],
       [text |-> <<"1", "x">>, u32 |-> None],
       [text |-> <<" ", "1">>, u32 |-> None],
       [text |-> <<"+">>, u32 |-> None] >>

\* What stands before the last '-': nothing, a name, a name with a '-' of its
\* own, a number, a name that ends in a '-'.
UtPrefixes ==
    { <<>>,
      <<"c", "l", "a", "c", "h", "e", "l", "e", "s", "s">>,
      <<"m", "y", "-", "p", "o", "d">>,
      <<"4", "2">>,
      <<"p", "o", "d", "-">> }

\* The values of POD_NAME: a text without '-' alone (dash false), or a
\* prefix, a '-' and a text without '-'.
UtInputs ==
    [prefix : UtPrefixes, dash : BOOLEAN, suffix : DOMAIN UtSuffixes]

UtValue(input) ==
    IF input.dash
    THEN input.prefix \o <<"-">> \o UtSuffixes[input.suffix].text
    ELSE UtSuffixes[input.suffix].text

UtInit == utLast = [op |-> "none", input |-> {}, ret |-> None]

\* One call of extract_ordinal_from_string.
UtExtract(input) ==
    /\ utLast' = [op |-> "extract_ordinal_from_string", input |-> {input},
                  ret |-> extract_ordinal_from_string(UtValue(input))]
    /\ UNCHANGED <<nvVars, gsVars, lcVars, dcVars, cvVars, itVars, paVars>>

\* One start of the binary: config::local_node_id.
UtLocalNodeId(input) ==
    /\ utLast' = [op |-> "local_node_id", input |-> {input},
                  ret |-> Some(ConfigLocalNodeId(UtValue(input)))]
    /\ UNCHANGED <<nvVars, gsVars, lcVars, dcVars, cvVars, itVars, paVars>>

UtNext ==
    \/ \E input \in UtInputs : UtExtract(input)
    \/ \E input \in UtInputs : UtLocalNodeId(input)

\* --------------------------------------------------------------- node id
\* A u64 is held as its four 16-bit limbs, the most significant first.
RECURSIVE BitOr(_, _, _)
\* a | b on the n low bits.
BitOr(a, b, n) ==
    IF n = 0 THEN 0
    ELSE 2 * BitOr(a \div 2, b \div 2, n - 1)
           + (IF a % 2 = 1 \/ b % 2 = 1 THEN 1 ELSE 0)

\* x | y on u64.
Or64(x, y) == [i \in 1..4 |-> BitOr(x[i], y[i], 16)]

\* x << 32 on u64: the high 32 bits are shifted out.
Shl32(x) == <<x[3], x[4], 0, 0>>

\* u64::from of a u32.
U64From(u32) == <<0, 0, u32[1], u32[2]>>

MutMaskLow16(x) == <<0, 0, 0, x[4]>>

\* x & 0xffff_ffff on u64.
MaskLow32(x) == <<0, 0, x[3], x[4]>>

\* DistributedCache::new: the local_node_id of a replica of ordinal
\* local_node_ordinal started in second now_seconds.
NewLocalNodeId(now_seconds, local_node_ordinal) ==
    Or64(Shl32(MaskLow32(now_seconds)), U64From(local_node_ordinal))

\* The seconds replicas start in: second 1, second 2^16 + 1, a present-day
\* time (1 700 000 000 = 25939 * 2^16 + 61696), the last second below 2^32,
\* and the seconds from 2^32 on.
StartSeconds ==
    {<<0, 0, 0, 1>>, <<0, 0, 1, 1>>, <<0, 0, 25939, 61696>>,
     <<0, 0, 65535, 65535>>, <<0, 1, 0, 0>>, <<0, 1, 0, 1>>}

\* The ordinals of the replicas: 0, 1 and u32::MAX.
StartOrdinals == {<<0, 0>>, <<0, 1>>, <<65535, 65535>>}

Starts == [now_seconds : StartSeconds, ordinal : StartOrdinals]

\* Two incarnations of replicas start: DistributedCache::new of each.
UtNewTwice(a, b) ==
    /\ utLast' = [op |-> "new", input |-> {a, b}, ret |-> None,
                  first |-> a, second |-> b,
                  ids |-> <<NewLocalNodeId(a.now_seconds, a.ordinal),
                            NewLocalNodeId(b.now_seconds, b.ordinal)>>]
    /\ UNCHANGED <<nvVars, gsVars, lcVars, dcVars, cvVars, itVars, paVars>>

NodeIdNext == \E a \in Starts, b \in Starts : UtNewTwice(a, b)

\* ------------------------------------------------------------ REST: GET
\* A continuation byte of UTF-8.
IsCont(b) == 128 <= b /\ b <= 191

\* The number of bytes of the UTF-8 sequence that starts the bytes, or 0 if
\* they start with none (std::str::from_utf8's validation: no overlong forms,
\* no surrogates, nothing above U+10FFFF).
Utf8Width(bytes) ==
    LET n == Len(bytes)
        b1 == bytes[1]
    IN  IF n = 0 THEN 0
        ELSE IF b1 < 128 THEN 1
        ELSE IF 194 <= b1 /\ b1 <= 223
        THEN IF n >= 2 /\ IsCont(bytes[2]) THEN 2 ELSE 0
        ELSE IF 224 <= b1 /\ b1 <= 239
        THEN IF /\ n >= 3
                /\ IsCont(bytes[2])
                /\ IsCont(bytes[3])
                /\ (b1 = 224 => bytes[2] >= 160)
                /\ (b1 = 237 => bytes[2] <= 159)
             THEN 3 ELSE 0
        ELSE IF 240 <= b1 /\ b1 <= 244
        THEN IF /\ n >= 4
                /\ IsCont(bytes[2])
                /\ IsCont(bytes[3])
                /\ IsCont(bytes[4])
                /\ (b1 = 240 => bytes[2] >= 144)
                /\ (b1 = 244 => bytes[2] <= 143)
             THEN 4 ELSE 0
        ELSE 0

RECURSIVE IsUtf8(_)
\* Whether String::from_utf8 takes the bytes.
IsUtf8(bytes) ==
    \/ bytes = <<>>
    \/ /\ Utf8Width(bytes) > 0
       /\ IsUtf8(SubSeq(bytes, Utf8Width(bytes) + 1, Len(bytes)))

Malformed == [kind |-> "Malformed", bytes |-> ""]

\* DistributedCache::get_string on a cache whose clock reads now_micros: the
\* bytes of LocalCache::get as a string, Malformed if they are not UTF-8.
GetString(cache, cache_key, now_micros) ==
    LET cached_content == LocalCacheGet(cache, cache_key, now_micros)
    IN  IF cached_content.kind # "Ok" THEN cached_content
        ELSE IF IsUtf8(cached_content.bytes) THEN cached_content
        ELSE Malformed

\* An HTTP response.
HttpResponse(status, body) == [status |-> status, body |-> body]

\* ApiErrorMapper::from_error, by the kind of the error.
from_error(kind) ==
    HttpResponse(CASE kind = "Malformed" -> 400
                   [] kind = "NotFound" -> 404
                   [] OTHER -> 500,
                 kind)

\* get_object: GET /api/v1/cache/{key}
get_object(cache, cache_key, now_micros) ==
    LET object == GetString(cache, cache_key, now_micros)
    IN  IF object.kind = "Ok" THEN HttpResponse(200, object.bytes)
        ELSE from_error(object.kind)

\* The values the cache can hold: put_bytes and the put_cache_entry handler
\* take any bytes.  Here "a", "e" with an acute accent, and a lone 0xFF.
RestBytes == {<<97>>, <<195, 169>>, <<255>>}

RestInputs ==
    {CacheEntry(bytes, t, local_node_id(0), 1, e) :
        bytes \in RestBytes, t \in 1..MaxMicros, e \in 2..MaxMicros + 1}

\* One GET request.
GetObject(cache_key) ==
    /\ lcLast' = [op |-> "get_object", key |-> cache_key, arg |-> Stored(lc, cache_key),
                  ret |-> get_object(lc, cache_key, lcNow)]
    /\ UNCHANGED <<lcPass, lc, lcNow, lcHist, nvVars, utVars, gsVars, dcVars, cvVars, itVars, paVars>>

RestNext ==
    \/ \E k \in Keys, e \in RestInputs : LcPut(k, e)
    \/ \E k \in Keys : GetObject(k)
    \/ LcPurge
    \/ LcTick

\* ---------------------------------------------------------- specifications

Init ==
    NvInit /\ LcInit /\ DcInit /\ CvInit /\ ItInit /\ PaInit /\ UtInit /\ GsInit

SpecNodeView == Init /\ [][NvNext]_vars

SpecCache == Init /\ [][LcNext]_vars

SpecIter == Init /\ [][ItNext]_vars

SpecToken == Init /\ [][PaNext]_vars

SpecAuth == Init /\ [][AuthNext]_vars

SpecRest == Init /\ [][RestNext]_vars

SpecTransfer == Init /\ [][TransferNext]_vars

SpecGossip == Init /\ [][GsNext]_vars

SpecPurge == Init /\ [][PurgeNext]_vars

SpecNodeId == Init /\ [][NodeIdNext]_vars

InitAnyTtl ==
    NvInit /\ LcInit /\ DcInitAnyTtl /\ CvInit /\ ItInit /\ PaInit /\ UtInit
      /\ GsInit

SpecTtl == InitAnyTtl /\ [][TtlNext]_vars

SpecUtil == Init /\ [][UtNext]_vars

SpecView == Init /\ [][CvNext]_vars

SpecDiff == Init /\ [][CvDiffNext]_vars

Spec == Init /\ [][DcNext]_vars

\* The partition scenario: replica 0 takes its PUTs while replica 1 cannot be
\* reached, so every put-entry RPC of a broadcast fails and the peers drop out
\* of each other's alive window; then the network comes back, and from then
\* on there is no client action and every peer RPC gets through.
HealNext ==
    \/ \E r \in Ordinals : Tick(r)
    \/ \E k \in Keys :
          ~connected /\ PutBytes(0, k, PayloadOf(0, local_sequence[0] + 1))
    \/ \E m \in net : LoseUpdate(m)
    \/ \E r \in Ordinals, o \in Ordinals : ~connected /\ LoseSight(r, o)
    \/ Heal
    \/ \E s \in Ordinals, r \in Ordinals : PushStateView(s, r, TRUE)
    \/ \E task \in transfers : TransferStep(task, TRUE)
    \/ \E r \in Ordinals : Purge(r)

InitPartitioned ==
    NvInit /\ LcInit /\ DcInitPartitioned /\ CvInit /\ ItInit /\ PaInit
      /\ UtInit /\ GsInit

\* Every key list an iterator of LocalCache::iter can hold: the sequences of
\* distinct keys.
KeySeqs ==
    {ks \in UNION {[1..n -> Keys] : n \in 1..Cardinality(Keys)} :
        \A i \in DOMAIN ks, j \in DOMAIN ks : ks[i] = ks[j] => i = j}

\* Every state-transfer task there can be while every RPC gets through.
TransferTasks ==
    {task \in [from : Ordinals, to : Ordinals, keys : KeySeqs,
               adv : 0..MaxPuts, ok : {TRUE}] : task.from # task.to}

\* notify_other_nodes runs every 2 s on every replica and each spawned
\* transfer task runs to its end: a push that can be made is made, and every
\* running transfer sends its next entry.
SpecHeal ==
    /\ InitPartitioned
    /\ [][HealNext]_vars
    /\ \A s \in Ordinals, r \in Ordinals : WF_vars(PushStateView(s, r, TRUE))
    /\ \A task \in TransferTasks :
          WF_vars(task \in transfers /\ TransferStep(task, TRUE))

\* ------------------------------------------------------------------ claims

\* C6: after any sequence of NodeView.update calls from the default state,
\* baseline_seq is the largest b such that every value of 1..b was passed to
\* update (after 1, 3, 2 it is 3).
C6_BaselineIsDensePrefix == nv.baseline_seq = DenseUpTo(nvSupplied)

\* C7: after any sequence of NodeView.update calls, baseline_seq <= latest_seq.
C7_BaselineAtMostLatest == nv.baseline_seq <= nv.latest_seq

\* C2: for put calls on one key with pairwise distinct this_update_micros, in
\* any order, the entry retained is the one with the greatest
\* this_update_micros, and it is the one get reads (as long as the purger
\* cannot have removed it: its expiry has not passed).
C2_GreatestTimestampRetained ==
    \A k \in Keys : \A e \in lcHist[k].newest :
        (lcHist[k].distinct /\ e.expires_micros >= lcNow) =>
            /\ k \in DOMAIN lc
            /\ lc[k] = e
            /\ LocalCacheGet(lc, k, lcNow) = Found(e.object_bytes)

\* C2 witness: three puts with distinct timestamps on one key, the last of
\* them older than the entry retained (the reverse order of the claim).
C2_Witness ==
    /\ lcLast.op = "put"
    /\ lcHist[lcLast.key].distinct
    /\ Cardinality(lcHist[lcLast.key].stamps) >= 2
    /\ lcLast.key \in DOMAIN lc
    /\ \A e \in lcLast.arg :
          /\ e.this_update_micros < lc[lcLast.key].this_update_micros
          /\ e.object_bytes # lc[lcLast.key].object_bytes
    /\ lc[lcLast.key].expires_micros >= lcNow

\* C3: a put whose incumbent has this_update_micros greater than or equal to
\* the new entry's leaves the cache as it was and returns Ok.  (Every step
\* that ends with lcLast.op = "put" is a call of put with arguments
\* lcLast.key and lcLast.arg.)
C3_OlderPutLeavesIncumbent ==
    [][(/\ lcLast'.op = "put"
        /\ lcLast'.key \in DOMAIN lc
        /\ \A e \in lcLast'.arg :
              lc[lcLast'.key].this_update_micros >= e.this_update_micros)
       => (lc' = lc /\ lcLast'.ret = Ok)]_vars

\* C3 witness: a put of an entry with the incumbent's timestamp and another
\* payload has just returned, and the incumbent is still there.
C3_Witness ==
    /\ lcLast.op = "put"
    /\ lcLast.key \in DOMAIN lc
    /\ lcLast.ret = Ok
    /\ \A e \in lcLast.arg :
          /\ e.this_update_micros = lc[lcLast.key].this_update_micros
          /\ e.object_bytes # lc[lcLast.key].object_bytes
          /\ e.origin_node_id # lc[lcLast.key].origin_node_id

\* C4: get returns NotFound whenever the stored entry has expires_micros <=
\* now (also when they are equal), purged or not; it returns the stored bytes
\* only when expires_micros > now.
C4_ExpiredIsNotFound ==
    lcLast.op = "get" =>
        IF lcLast.key \in DOMAIN lc /\ lc[lcLast.key].expires_micros > lcNow
        THEN lcLast.ret = Found(lc[lcLast.key].object_bytes)
        ELSE lcLast.ret = NotFound

\* No push of a state view would make its receiver ask for a state transfer.
NoGap ==
    \A s \in Ordinals, r \in Ordinals :
        s # r => DOMAIN get_out_of_sync_node_id_and_baselines(r, as_map(s)) = {}

\* No entry ever written has reached its expiry on any replica's clock.
NothingExpired ==
    \A p \in putLog, r \in Ordinals : p.entry.expires_micros > clock[r]

\* Nothing is in flight, no transfer is running and no push would start one,
\* and nothing has expired: from here on, without further PUTs, no cache
\* changes.
Settled ==
    /\ net = {}
    /\ transfers = {}
    /\ NoGap
    /\ NothingExpired

\* C1: eventual convergence.  Once PUTs have stopped, everything sent has been
\* delivered and nothing expires, GET(k) returns the same value on every
\* replica for every key, also after PUTs of k with equal this_update_micros.
\* In a settled state the caches no longer change, so what the claim promises
\* eventually must hold there already.
C1_SettledReplicasAgree ==
    Settled => \A k \in Keys : get_string(0, k) = get_string(1, k)

\* C5 as claimed: right after put_string(k, v) at a replica, and until the
\* TTL has elapsed, get_string(k) at that replica returns v, whatever the
\* cache held for k before.
C5_PutThenGet ==
    last.op = "put_bytes" =>
        \A e \in last.entry :
            clock[last.node] < e.expires_micros =>
                get_string(last.node, last.key) = Found(e.object_bytes)

\* C5 as amended: ... returns v, provided the entry the cache held for k
\* before, if any, has a this_update_micros strictly below the PUT's.
C5_PutThenGetOverOlder ==
    last.op = "put_bytes" =>
        \A e \in last.entry :
            (/\ clock[last.node] < e.expires_micros
             /\ \A old \in last.before :
                    old.this_update_micros < e.this_update_micros)
            => get_string(last.node, last.key) = Found(e.object_bytes)

\* C5 witness: a PUT has just replaced an older entry received from a peer,
\* and the replica returns the new value.
C5_Witness ==
    /\ last.op = "put_bytes"
    /\ \E e \in last.entry, old \in last.before :
          /\ old.this_update_micros < e.this_update_micros
          /\ old.origin_node_id # local_node_id(last.node)
          /\ clock[last.node] < e.expires_micros
          /\ get_string(last.node, last.key) = Found(e.object_bytes)

\* C8: a state transfer that was triggered by a push of X advertising
\* sequence number adv for X itself, to a receiver whose baseline for X was
\* below adv, and whose put-entry RPCs were all delivered, leaves the
\* receiver's baseline_seq for X at adv or above (no entry having expired).
C8_TransferClosesGap ==
    (last.op = "transfer_done" /\ last.ok /\ last.adv > 0 /\ NothingExpired) =>
        /\ local_node_id(last.peer) \in DOMAIN other_nodes_update_seqs[last.node]
        /\ get_baseline_sequence(
               other_nodes_update_seqs[last.node][local_node_id(last.peer)])
             >= last.adv

\* The local PUT p has the greatest this_update_micros of all PUTs of its key.
IsNewestPut(p) ==
    \A q \in putLog :
        (q.key = p.key /\ q # p) =>
            q.entry.this_update_micros < p.entry.this_update_micros

HasReceived(r, p) ==
    <<p.entry.origin_node_id, p.entry.origin_node_update_seq>> \in received[r]

\* Replica 0 accepted p0 and replica 1 accepted p1 for the same key, p1 with
\* the greater this_update_micros, and each has handled the other's put-entry.
Crossed(p0, p1) ==
    /\ p0.node = 0 /\ p1.node = 1
    /\ p0.key = p1.key
    /\ p1.entry.this_update_micros > p0.entry.this_update_micros
    /\ HasReceived(1, p0) /\ HasReceived(0, p1)

\* C10: if replica 0 accepted PUT k->a at t and replica 1 PUT k->b at t' > t
\* (the newest PUT of k), then once each replica has received the other's
\* put-entry, in whatever order, GET k returns b on both replicas for as long
\* as b has not expired there.
C10_NewerWriteWinsOnBoth ==
    \A p0 \in putLog, p1 \in putLog :
        (Crossed(p0, p1) /\ IsNewestPut(p1)) =>
            \A r \in Ordinals :
                p1.entry.expires_micros >= clock[r] =>
                    get_string(r, p1.key) = Found(p1.entry.object_bytes)

\* C10 witness: the two PUTs have crossed and b is readable on both replicas.
C10_Witness ==
    \E p0 \in putLog, p1 \in putLog :
        /\ Crossed(p0, p1)
        /\ \A r \in Ordinals :
              get_string(r, p1.key) = Found(p1.entry.object_bytes)

\* Replica 1 returns, for every key, what replica 0 last accepted for it, as
\* far as that entry has not reached its expiry on either clock.
CaughtUp ==
    \A p \in putLog :
        (/\ IsNewestPut(p)
         /\ \A r \in Ordinals : p.entry.expires_micros > clock[r])
        => get_string(1, p.key) = Found(p.entry.object_bytes)

\* C9: replica 0 accepted its PUTs k->v while replica 1 was unreachable; once
\* connectivity is back, pushes and state transfer alone bring replica 1 to
\* return v for GET k, unless the entry expires first.
C9_CatchUpAfterHeal == connected ~> CaughtUp

\* C9 witness: after the partition has healed, replica 1 returns a value that
\* replica 0 accepted during the partition and a state transfer delivered.
C9_Witness ==
    /\ connected
    /\ \E p \in putLog :
          /\ p.node = 0
          /\ IsNewestPut(p)
          /\ HasReceived(1, p)
          /\ p.entry.expires_micros > clock[1]
          /\ get_string(1, p.key) = Found(p.entry.object_bytes)

\* C11: the map returned by get_out_of_sync_node_id_and_baselines never holds
\* the local node id, holds an origin id of the pushed view only if the local
\* baseline for it (0 without a NodeView) is strictly below the pushed one,
\* and maps each id it holds to that local baseline.
C11_DiffHoldsOnlyLaggingOrigins ==
    cvLast.op \in {"diff", "diff_own"} =>
        /\ CvNodeId \notin DOMAIN cvLast.ret
        /\ \A id \in DOMAIN cvLast.ret :
              /\ id \in DOMAIN cvLast.view
              /\ cvLast.base[id] < cvLast.view[id]
              /\ cvLast.ret[id] = cvLast.base[id]

\* C12: what as_map returned, handed to get_out_of_sync_node_id_and_baselines
\* of the same view later on, gives the empty map, whatever put_cache_entry
\* handlers and local PUTs ran in between.
C12_OwnMapHasNoGap == cvLast.op = "diff_own" => cvLast.ret = EmptyView

\* C12 witness: the map held the local pair and a peer's pair, and a handler
\* has raised that peer's baseline since as_map read it.
C12_Witness ==
    /\ cvLast.op = "diff_own"
    /\ CvNodeId \in DOMAIN cvLast.view
    /\ \E id \in DOMAIN cvLast.view :
          id # CvNodeId /\ cvLast.base[id] > cvLast.view[id]
    /\ cvLast.ret = EmptyView

\* C15: the values generate_next returned are strictly increasing in the
\* order of the calls, hence pairwise distinct.
C15_SequenceStrictlyIncreasing ==
    \A i \in DOMAIN cvIssued, j \in DOMAIN cvIssued :
        i < j => cvIssued[i] < cvIssued[j]

\* C15 witness: generate_next has returned at least twice.
C15_Witness == Len(cvIssued) >= 2 /\ cvIssued[1] # cvIssued[2]

\* C13: the entries the iterator of LocalCache::iter yields come in
\* non-decreasing origin_node_update_seq, also when puts replace entries
\* while the iterator is being consumed.
C13_YieldedInSequenceOrder ==
    \A i \in DOMAIN itYielded, j \in DOMAIN itYielded :
        i < j => itYielded[i].origin_node_update_seq
                   <= itYielded[j].origin_node_update_seq

\* C14: every entry the iterator yields has its origin in the map the
\* iterator was made with, a this_update_micros above the map's value for
\* that origin, and an expiry after the clock reading of the iter call, also
\* when a put replaces a selected key before it is yielded.
C14_YieldedAreSelected ==
    \A i \in DOMAIN itYielded :
        /\ itYielded[i].origin_node_id \in DOMAIN it.map
        /\ itYielded[i].this_update_micros
             > it.map[itYielded[i].origin_node_id]
        /\ itYielded[i].expires_micros > it.now

\* C16: put_bytes returns Ok and has made the local cache write (the entry
\* is stored unless the incumbent was not older), whether or not the peer can
\* be reached, and without waiting for the put-entry RPCs it spawned.
C16_PutSucceedsWithoutPeers ==
    last.op = "put_bytes" =>
        \A e \in last.entry :
            /\ last.ret = Ok
            /\ last.key \in DOMAIN local_cache[last.node]
            /\ local_cache[last.node][last.key] =
                 IF \A old \in last.before :
                        old.this_update_micros < e.this_update_micros
                 THEN e
                 ELSE CHOOSE old \in last.before : TRUE

\* C16 witness: put_bytes has returned Ok and stored the entry while the peer
\* was unreachable and the put-entry RPC to it was still outstanding.
C16_Witness ==
    /\ last.op = "put_bytes"
    /\ ~connected
    /\ last.ret = Ok
    /\ \E e \in last.entry :
          /\ local_cache[last.node][last.key] = e
          /\ \E m \in net : m.entry = e /\ m.to # last.node

\* The put-entry request for this entry has been handled by replica r before
\* and the entry has not reached its expiry there.
IsRedelivery(r, entry) ==
    /\ <<entry.origin_node_id, entry.origin_node_update_seq>> \in received[r]
    /\ entry.expires_micros > clock[r]

\* A step leaves the cache and the cluster state view of replica r as is.
ReceiverUnchanged(r) ==
    /\ local_cache'[r] = local_cache[r]
    /\ other_nodes_update_seqs'[r] = other_nodes_update_seqs[r]

\* C17: handling a put_cache_entry request that the replica has handled
\* before (sent again by a broadcast or by a state transfer) changes neither
\* its cache nor the NodeView of the origin.
C17_RedeliveryIsNoOp ==
    [][/\ \A m \in net :
            (DeliverUpdate(m) /\ IsRedelivery(m.to, m.entry))
                => ReceiverUnchanged(m.to)
       /\ \A task \in transfers :
            (/\ TransferStep(task, TRUE)
             /\ Head(task.keys) \in DOMAIN local_cache[task.from]
             /\ IsRedelivery(task.to, local_cache[task.from][Head(task.keys)]))
                => ReceiverUnchanged(task.to)]_vars

\* The header is absent, or its token has another MAC than that of its time
\* under the cluster's secret, or a timestamp older than TOKEN_VALIDITY on
\* the clock of the receiver.
HeaderAbsent(header) == header = NoHeader

WrongMac(header) ==
    /\ header.kind = "b64"
    /\ Len(header.bytes) >= 8
    /\ SubSeq(header.bytes, 9, Len(header.bytes))
          # create_mac(Secret, SubSeq(header.bytes, 1, 8))

TooOld(header, now_micros) ==
    /\ header.kind = "b64"
    /\ Len(header.bytes) >= 8
    /\ now_micros - from_be_bytes(SubSeq(header.bytes, 1, 8)) > TOKEN_VALIDITY

BadHeader(header, now_micros) ==
    HeaderAbsent(header) \/ WrongMac(header) \/ TooOld(header, now_micros)

\* A step answers unauthenticated and leaves the cache, the cluster state
\* view, the liveness map and the transfers of replica r as they are.
Rejected(r) ==
    /\ paLast'.ret = Unauthenticated
    /\ ReceiverUnchanged(r)
    /\ known_nodes'[r] = known_nodes[r]
    /\ transfers' = transfers

\* C18: a put_cache_entry, state_view_update or init_state_transfer request
\* without the internal-auth header, or with a token of a wrong MAC or of a
\* timestamp older than 1 s, is answered unauthenticated and changes nothing
\* on the receiver: cache, cluster state view, liveness map.  (The header of
\* a request is the one its step notes in paLast.)
C18_BadHeaderIsRejected ==
    [][LET header == paLast'.header
       IN  /\ \A m \in net :
                 (/\ BadHeader(header, clock[m.to])
                  /\ AuthPutCacheEntry(header, m)) => Rejected(m.to)
           /\ \A s \in Ordinals, r \in Ordinals :
                 /\ (/\ BadHeader(header, clock[r])
                     /\ AuthStateViewUpdate(header, s, r)) => Rejected(r)
                 /\ (/\ BadHeader(header, clock[s])
                     /\ AuthInitStateTransfer(header, s, r)) => Rejected(s)]_vars

\* A put_cache_entry request with a token of the cluster's secret that was
\* too old has been answered unauthenticated, and the receiver's cache is
\* still empty.
C18_Witness ==
    /\ paLast.op = "put_cache_entry"
    /\ TooOld(paLast.header, paLast.now)
    /\ ~WrongMac(paLast.header)
    /\ paLast.ret = Unauthenticated
    /\ local_cache[0] = EmptyCache
    /\ local_cache[1] # EmptyCache

\* The entry a GET of the key finds, if it has not expired.
NonExpired(cache_key) ==
    {cde \in Stored(lc, cache_key) : cde.expires_micros > lcNow}

\* C21: GET /api/v1/cache/{key} answers 404 exactly when the key has no
\* non-expired entry, and 500 when the stored value is not valid UTF-8.
C21_GetStatus ==
    lcLast.op = "get_object" =>
        /\ lcLast.ret.status = 404 <=> NonExpired(lcLast.key) = {}
        /\ \A cde \in NonExpired(lcLast.key) :
              ~IsUtf8(cde.object_bytes) => lcLast.ret.status = 500

\* C22: extract_ordinal_from_string returns the unsigned integer that follows
\* the last '-' of its input, and None when there is no '-' or what follows
\* is not a u32; config::local_node_id is then 0.
C22_OrdinalFollowsLastDash ==
    \A input \in utLast.input :
        LET expected == IF input.dash THEN UtSuffixes[input.suffix].u32
                        ELSE None
        IN  /\ utLast.op = "extract_ordinal_from_string"
                 => utLast.ret = expected
            /\ utLast.op = "local_node_id"
                 => utLast.ret = IF expected.some THEN expected
                                 ELSE Some(U32(0))

\* The ordinals of the unit test have been extracted: 1 and 123 after
\* "clacheless-".
C22_Witness ==
    /\ utLast.op = "extract_ordinal_from_string"
    /\ \E input \in utLast.input :
          /\ UtValue(input) = <<"c", "l", "a", "c", "h", "e", "l", "e", "s", "s",
                                "-", "1", "2", "3">>
          /\ utLast.ret = Some(U32(123))

\* C23: NodeView.update(n) sets latest_seq to n, advances baseline_seq to n
\* exactly when n is the previous baseline_seq + 1, and returns true iff it
\* advanced baseline_seq.
C23_UpdateRule ==
    nvLast.arg # 0 =>
        /\ nv.latest_seq = nvLast.arg
        /\ nv.baseline_seq = IF nvLast.arg = nvLast.prev.baseline_seq + 1
                             THEN nvLast.arg
                             ELSE nvLast.prev.baseline_seq
        /\ nvLast.ret <=> nv.baseline_seq # nvLast.prev.baseline_seq

\* An update in strict sequence after a later one had been seen (1, 3, then
\* 2) has advanced the baseline and returned true.
C23_Witness ==
    /\ nvLast.ret
    /\ nvLast.prev.latest_seq > nvLast.arg
    /\ nvLast.prev.baseline_seq > 0
    /\ nv.baseline_seq = nvLast.arg

C25_IssuedAreDense ==
    /\ \A i \in DOMAIN cvIssued : cvIssued[i] = i
    /\ current(cvSeq) = IF cvIssued = <<>> THEN 0
                        ELSE cvIssued[Len(cvIssued)]
    /\ has_been_pulled(cvSeq) <=> cvIssued # <<>>

\* generate_next has been called twice: 1 and 2 were issued, and 2 is
\* current.
C25_Witness ==
    /\ cvIssued = <<1, 2>>
    /\ current(cvSeq) = 2
    /\ has_been_pulled(cvSeq)

\* A step stores the entry at replica r under the key just as it was sent if
\* the key is free or holds a strictly older entry, and else leaves the cache
\* alone.
StoredAsSent(r, cache_key, entry) ==
    IF \A old \in Stored(local_cache[r], cache_key) :
          old.this_update_micros < entry.this_update_micros
    THEN local_cache'[r] =
           [k \in DOMAIN local_cache[r] \cup {cache_key} |->
               IF k = cache_key THEN entry ELSE local_cache[r][k]]
    ELSE local_cache'[r] = local_cache[r]

\* A step observes the entry's sequence number at replica r: the origin has
\* a NodeView afterwards, with that number as latest_seq, and the NodeViews
\* of the other origins are as before.
Observed(r, entry) ==
    LET before == other_nodes_update_seqs[r]
        after == other_nodes_update_seqs'[r]
    IN  /\ DOMAIN after = DOMAIN before \cup {entry.origin_node_id}
        /\ after[entry.origin_node_id].latest_seq
             = entry.origin_node_update_seq
        /\ \A id \in DOMAIN before \ {entry.origin_node_id} :
              after[id] = before[id]

\* C26: the put_cache_entry handler stores the entry with the sender's
\* this_update_micros, expires, origin_node_id and origin_node_update_seq
\* (subject to last-writer-wins), then observes (origin_node_id, seq),
\* creating the NodeView on first contact; it does so and succeeds whether or
\* not the put replaced anything and whatever observe returns.
C26_HandlerStoresThenObserves ==
    [][/\ \A m \in net :
            DeliverUpdate(m) =>
                /\ StoredAsSent(m.to, m.key, m.entry)
                /\ Observed(m.to, m.entry)
                /\ last'.ret = Ok
       /\ \A task \in transfers :
            (/\ TransferStep(task, TRUE)
             /\ Head(task.keys) \in DOMAIN local_cache[task.from])
                => LET key == Head(task.keys)
                   IN  /\ StoredAsSent(task.to, key, local_cache[task.from][key])
                       /\ Observed(task.to, local_cache[task.from][key])]_vars

\* A replica has observed the put-entry of a peer although its key held, and
\* holds, another entry that is not older (the put replaced nothing).
C26_Witness ==
    \E r \in Ordinals, p \in putLog :
        /\ p.node # r
        /\ <<p.entry.origin_node_id, p.entry.origin_node_update_seq>>
              \in received[r]
        /\ p.key \in DOMAIN local_cache[r]
        /\ local_cache[r][p.key] # p.entry
        /\ local_cache[r][p.key].this_update_micros
              >= p.entry.this_update_micros
        /\ other_nodes_update_seqs[r][p.entry.origin_node_id].latest_seq
              = p.entry.origin_node_update_seq

\* C27: a local PUT draws a sequence number the replica has not used, stamps
\* this_update_micros = now and expires_micros = now + TTL, and hands one
\* and the same key, bytes, this_update_micros, expires_micros,
\* origin_node_id (its own node id) and sequence number to the local cache
\* and to one put-entry request per live peer.
C27_PutStampsAndFansOut ==
    [][\A r \in Ordinals, k \in Keys :
          PutBytes(r, k, PayloadOf(r, local_sequence[r] + 1)) =>
              LET entry == CacheEntry(PayloadOf(r, local_sequence[r] + 1),
                                      clock[r], local_node_id(r),
                                      local_sequence'[r],
                                      clock[r] + cache_item_ttl_micros)
              IN  /\ \A p \in putLog :
                        p.node = r => p.entry.origin_node_update_seq
                                        # entry.origin_node_update_seq
                  /\ entry.origin_node_update_seq > 0
                  /\ local_cache'[r] # local_cache[r]
                       => local_cache'[r][k] = entry
                  /\ (\A old \in Stored(local_cache[r], k) :
                         old.this_update_micros < entry.this_update_micros)
                       => local_cache'[r][k] = entry
                  /\ \A o \in known_nodes[r] \ {r} :
                        [to |-> o, key |-> k, entry |-> entry] \in net'
                  /\ \A m \in net' \ net :
                        m.key = k /\ m.entry = entry /\ m.to # r]_vars

\* A replica has made its second PUT while it knew its peer: the entry in
\* its cache and the put-entry request to the peer are the same, with
\* sequence number 2.
C27_Witness ==
    /\ last.op = "put_bytes"
    /\ known_nodes[last.node] # {}
    /\ \E e \in last.entry :
          /\ e.origin_node_update_seq = 2
          /\ e.this_update_micros = clock[last.node]
          /\ local_cache[last.node][last.key] = e
          /\ \A o \in known_nodes[last.node] :
                [to |-> o, key |-> last.key, entry |-> e] \in net

\* What replica r lacks of what replica s would push now.
GapOf(s, r) ==
    OutOfSync(local_node_id(r), other_nodes_update_seqs[r],
              AsMapOf(local_node_id(s), local_sequence[s],
                      other_nodes_update_seqs[s]))

\* A step spawns at replica s the transfer to r of the entries chosen by the
\* gap (or, if the gap chooses no entry, the transfer ends at once).
TransferRequested(s, r, gap) ==
    LET keys == LocalCacheIter(local_cache[s], gap, clock[s])
    IN  IF keys = <<>>
        THEN /\ transfers' = transfers
             /\ last'.op = "transfer_done" /\ last'.node = r /\ last'.peer = s
        ELSE \E task \in transfers' :
                task.from = s /\ task.to = r /\ task.keys = keys

\* C28: the state_view_update handler requests a state transfer from the
\* sender iff the diff of the pushed view is non-empty, for exactly that
\* diff; a failed dial or request changes nothing (but the note that the
\* sender is alive, made before), and only a later push asks again.
C28_RequestIffGap ==
    [][/\ \A s \in Ordinals, r \in Ordinals :
            /\ PushStateView(s, r, TRUE) =>
                  IF DOMAIN GapOf(s, r) = {}
                  THEN transfers' = transfers /\ last' = NoOp
                  ELSE TransferRequested(s, r, GapOf(s, r))
            /\ PushStateView(s, r, FALSE) =>
                  /\ DOMAIN GapOf(s, r) # {}
                  /\ transfers' = transfers
                  /\ net' = net
                  /\ ReceiverUnchanged(r) /\ ReceiverUnchanged(s)
                  /\ local_sequence' = local_sequence
       /\ Cardinality(transfers') > Cardinality(transfers) =>
            \E s \in Ordinals, r \in Ordinals : PushStateView(s, r, TRUE)]_vars

\* A replica has handled a push that showed a gap, its request for the
\* transfer has failed, and nothing is on its way to it.
C28_Witness ==
    /\ last.op = "request_failed"
    /\ DOMAIN GapOf(last.peer, last.node) # {}
    /\ last.peer \in known_nodes[last.node]
    /\ transfers = {}
    /\ received[last.node] = {}

\* C29: the init_state_transfer handler returns success, whether or not the
\* connection back to the receiver can be opened.
C29_InitStateTransferSucceeds ==
    last.op = "init_state_transfer" => last.ret = Ok

\* An ordinal is alive while now - last_seen <= MAX_AGE.
Alive(seen, now_micros) ==
    {o \in DOMAIN seen : now_micros - seen[o] <= MAX_AGE_BEFORE_IGNORED_MICROS}

\* The largest alive ordinal, or the local ordinal if none is alive.
HighestKnown(seen, local_node_ordinal, now_micros) ==
    LET alive == Alive(seen, now_micros)
    IN  IF alive = {} THEN local_node_ordinal
        ELSE CHOOSE o \in alive : \A p \in alive : p <= o

\* C30: a round of state-view pushes and a put-entry broadcast go to
\* exactly the ordinals 0..=highest_known but the local one, highest_known
\* the largest alive ordinal or the local one; never to the sender itself,
\* and from ordinal 0 to nobody before a push has reached it.
C30_SendsToLivePeers ==
    gsLast.op \in {"notify_other_nodes", "broadcast_update"} =>
      LET r == gsLast.node
      IN  /\ gsLast.targets =
                {o \in 0..HighestKnown(gsSeen[r], r, gsNow) : o # r}
          /\ r \notin gsLast.targets
          /\ (r = 0 /\ 0 \notin gsHeard) => gsLast.targets = {}

\* C31: an ordinal in a liveness map is alive exactly while
\* now - last_seen <= MAX_AGE, and the peer enumeration, the new-peer
\* detection and the reaper all draw the line there: an alive entry counts
\* for the enumeration, is known to on_state_view, and is not reaped.
C31_OneAliveBoundary ==
    \A r \in GsOrdinals : \A o \in DOMAIN gsSeen[r] :
      LET alive == o \in Alive(gsSeen[r], gsNow)
      IN  /\ alive <=> IsLive(gsSeen[r][o], gsNow)
          /\ alive <=> WasKnown(gsSeen[r], o, gsNow)
          /\ alive <=> ~IsExpired(gsSeen[r][o], gsNow)

\* C32: every entry in any replica's cache, stored by a local PUT or by the
\* put_cache_entry handler, expires after its this_update_micros, at
\* this_update_micros + TTL, whatever the configured TTL.
C32_ExpiresAfterUpdate ==
    \A r \in Ordinals : \A k \in DOMAIN local_cache[r] :
      LET entry == local_cache[r][k]
      IN  /\ entry.expires_micros > entry.this_update_micros
          /\ entry.expires_micros = entry.this_update_micros + item_ttl_micros

\* Whether x is below y, both read as numbers, most significant limb first.
LimbsLess(x, y) ==
    \E i \in 1..Len(x) :
       /\ x[i] < y[i]
       /\ \A j \in 1..(i - 1) : x[j] = y[j]

\* Two different seconds (below 2^48) less than 2^32 s apart, s the earlier.
LessThan2To32Apart(s, t) ==
    /\ LimbsLess(s, t)
    /\ \/ t[2] = s[2]
       \/ t[2] = s[2] + 1 /\ LimbsLess(<<t[3], t[4]>>, <<s[3], s[4]>>)

\* C33: the low 32 bits of a node_id are the ordinal and its high 32 bits
\* the start second mod 2^32; replicas of different ordinals, and
\* incarnations of one ordinal started in different seconds less than 2^32 s
\* apart, have different node_ids.
C33_NodeIdIsUnique ==
    utLast.op = "new" =>
      LET a == utLast.first
          b == utLast.second
          id == utLast.ids
      IN  /\ <<id[1][3], id[1][4]>> = a.ordinal
          /\ <<id[1][1], id[1][2]>> = <<a.now_seconds[3], a.now_seconds[4]>>
          /\ a.ordinal # b.ordinal => id[1] # id[2]
          /\ (/\ a.ordinal = b.ordinal
              /\ \/ LessThan2To32Apart(a.now_seconds, b.now_seconds)
                 \/ LessThan2To32Apart(b.now_seconds, a.now_seconds))
               => id[1] # id[2]

\* C33 witness: two incarnations of ordinal 1, the second started after the
\* seconds have passed 2^32 but less than 2^32 s after the first, got their
\* node_ids.
C33_Witness ==
    /\ utLast.op = "new"
    /\ utLast.first.ordinal = <<0, 1>>
    /\ utLast.second.ordinal = <<0, 1>>
    /\ utLast.first.now_seconds = <<0, 0, 25939, 61696>>
    /\ utLast.second.now_seconds = <<0, 1, 0, 1>>
    /\ utLast.ids[1] # utLast.ids[2]

\* C34: a step of a purge pass removes only entries with
\* expires_micros < now, none that get would still return, and leaves every
\* other entry as it is, the one a put has stored in place of the entry
\* the pass holds included.
C34_PurgeRemovesOnlyExpired ==
    [][lcLast'.op = "purge_remove" =>
         /\ \A k \in DOMAIN lc \ DOMAIN lc' :
               /\ lc[k].expires_micros < lcNow
               /\ LocalCacheGet(lc, k, lcNow) = NotFound
         /\ \A k \in DOMAIN lc \cap DOMAIN lc' : lc'[k] = lc[k]
         /\ (lcLast'.key \in DOMAIN lc /\ lc[lcLast'.key] \notin lcLast'.arg)
               => lc' = lc]_vars

\* C34 witness: a put replaced the entry the pass held before the pass
\* removed it, and the replacement, which get returns, is still stored.
C34_Witness ==
    /\ lcLast.op = "purge_remove"
    /\ lcLast.key \in DOMAIN lc
    /\ lc[lcLast.key] \notin lcLast.arg
    /\ LocalCacheGet(lc, lcLast.key, lcNow) # NotFound
    /\ \E cde \in lcLast.arg : cde.expires_micros < lcNow

\* C35: a call of NodeView::update leaves baseline_seq as it is or
\* increases it by exactly 1; it never decreases.
C35_BaselineStepsByOne ==
    [][nv'.baseline_seq \in {nv.baseline_seq, nv.baseline_seq + 1}]_vars

\* C35 witness: update was called with a sequence number below the
\* baseline, after the baseline had advanced more than once.
C35_Witness ==
    /\ nvLast.arg # 0
    /\ nvLast.arg < nvLast.prev.baseline_seq
    /\ nvLast.prev.baseline_seq >= 2
    /\ nv.baseline_seq = nvLast.prev.baseline_seq

\* C36: every sequence number of 1..baseline_seq has been passed to update
\* before, whatever numbers were passed, in whatever order and how often.
C36_BaselineNeverOverstates ==
    \A i \in 1..nv.baseline_seq : i \in nvSupplied

\* C36 witness: the baseline stands at 2 although 4 was passed to update as
\* well (3 was lost), and 1 was passed again after 2.
C36_Witness ==
    /\ nv.baseline_seq = 2
    /\ 4 \in nvSupplied
    /\ 3 \notin nvSupplied
    /\ nvLast.arg = 1
    /\ nvLast.prev.baseline_seq = 2

\* C37: the baseline_seq a replica holds for an origin, and the value any
\* replica's as_map gives for it, is at most the number of sequence numbers
\* the origin has issued.
C37_BaselineWithinIssued ==
    \A r \in Ordinals, x \in Ordinals :
      LET id == local_node_id(x)
      IN  /\ id \in DOMAIN other_nodes_update_seqs[r] =>
                get_baseline_sequence(other_nodes_update_seqs[r][id])
                  <= local_sequence[x]
          /\ id \in DOMAIN as_map(r) => as_map(r)[id] <= local_sequence[x]

\* C37 witness: replica 1 has received both PUTs of replica 0 and holds the
\* baseline 2 for it, which its as_map gives out.
C37_Witness ==
    /\ local_sequence[0] = 2
    /\ local_node_id(0) \in DOMAIN other_nodes_update_seqs[1]
    /\ get_baseline_sequence(other_nodes_update_seqs[1][local_node_id(0)]) = 2
    /\ as_map(1)[local_node_id(0)] = 2

\* C38: no replica holds a NodeView keyed by its own node_id, no replica
\* is sent an entry of its own origin, and the pair of its own id in its
\* as_map is the current value of its sequence.
C38_NoNodeViewOfSelf ==
    \A r \in Ordinals :
      LET id == local_node_id(r)
      IN  /\ id \notin DOMAIN other_nodes_update_seqs[r]
          /\ \A p \in received[r] : p[1] # id
          /\ id \in DOMAIN as_map(r) => as_map(r)[id] = current(local_sequence[r])

\* The keys of the entries replica s holds that have one of the origins and
\* have not expired on its clock.
HeldOf(s, origins) ==
    {k \in DOMAIN local_cache[s] :
        /\ local_cache[s][k].origin_node_id \in origins
        /\ local_cache[s][k].expires_micros > clock[s]}

EveryDiffEmpty ==
    \A s \in Ordinals, r \in Ordinals :
        s # r => DOMAIN get_out_of_sync_node_id_and_baselines(r, as_map(s)) = {}

\* C40: once the network is back (from then on there are no PUTs and every
\* RPC gets through), there is a point after which every state-view push
\* yields an empty diff, so that no state transfer is requested any more.
C40_RequestsCease == <>[](connected => EveryDiffEmpty)

\* C19: is_token_valid returns false, and neither fails nor aborts, for every
\* token that decodes to fewer than 8 + mac_len bytes.
C19_ShortTokenReturnsFalse ==
    (paLast.op = "is_token_valid"
       /\ Len(decode_url(paLast.header)) < 8 + MacLen)
    => paLast.ret = Returns(FALSE)

\* C20: a token create_token returned is accepted by is_token_valid under
\* the same secret while the verifier's clock is less than TOKEN_VALIDITY
\* past the time it was made, and rejected from then on.
C20_MintedTokenValidForOneSecond ==
    paLast.op = "is_token_valid" =>
        \A m \in paMinted :
            m.token = paLast.header =>
                paLast.ret = Returns(paLast.now - m.at < TOKEN_VALIDITY)

\* C20 witness: a token was accepted after the verifier's clock had moved
\* past the time the token was made.
C20_Witness ==
    /\ paLast.op = "is_token_valid"
    /\ \E m \in paMinted :
          /\ m.token = paLast.header
          /\ paLast.now > m.at
          /\ paLast.ret = Returns(TRUE)

====
